---- MODULE Spec2Model ----
(***************************************************************************)
(* A model of the sharded ledger simulator: the red-black shard index, the *)
(* shard manager (distribute / rebalance / merge), the Merkle tree kept by *)
(* every shard, and the two-phase cross-shard transfer of the enhanced     *)
(* sync manager, first as whole single-threaded operations and then, for   *)
(* the locking claims, statement by statement with several threads.        *)
(***************************************************************************)
EXTENDS Integers, Sequences, FiniteSets, Bags, TLC

(***************************************************************************)
(* Bounds of the model.                                                    *)
(***************************************************************************)
\* blocks distributed in the ledger specification
MaxBlocks == 4
\* blocks and transfer-manager calls in the deeper ledger specification
DeepBlocks == 5
DeepCalls == 4
\* blocks distributed in the manager-only specification
MaxMgrBlocks == 7
\* blocks distributed in the distribute-only specification
MaxDistOnly == 9
\* prepared transfers alive at once, over all managers
MaxPending == 2
\* largest threshold handed to MergeShards
MaxThreshold == 4
\* calls of CreateAuthenticatedTransfer and VerifyAndApplyTransfer in one run
MaxCalls == 3
\* RBTree.Insert calls in the index-only specification
MaxInserts == 6
\* largest shard ID inserted in the index-only specification
MaxKey == 3
\* shards in the index when RebalanceShards is called on its own
MaxShards == 3
\* threads that run one transfer each in the concurrent specification
NumThreads == 2
\* shards of the index in the concurrent specification, two blocks in each
ConcShards == 2
\* largest block index a thread hands to its transfer
MaxIdx == 1

(***************************************************************************)
(* Strings and digests.  A string is a sequence of atoms; an atom is a     *)
(* record [t, v].  A character atom has an empty v.  SHA-256 and           *)
(* HMAC-SHA256 are taken to be injective: the hex digest of s is the       *)
(* one-atom string that remembers s.  Hex digests all have the same        *)
(* length, so the concatenation of digests determines its parts, as the    *)
(* concatenation of atoms does here.                                       *)
(***************************************************************************)
Str(c) == <<[t |-> c, v |-> <<>>]>>

EmptyStr == <<>>

sha256(s) == <<[t |-> "sha256", v |-> s]>>

hmacSha256(key, s) == <<[t |-> "hmac", v |-> <<[t |-> "key", v |-> key], [t |-> "msg", v |-> s]>>]>>

\* payloads given to Blockchain.AddBlock
Payloads == {Str("p"), Str("q")}

(***************************************************************************)
(* Merkle tree (core/merkle_tree.go).                                      *)
(***************************************************************************)
RECURSIVE buildParents(_, _)
buildParents(leaves, i) ==
    IF i > Len(leaves) THEN <<>>
    ELSE LET combined == IF i + 1 <= Len(leaves)
                         THEN leaves[i] \o leaves[i + 1]
                         ELSE leaves[i]
         IN <<sha256(combined)>> \o buildParents(leaves, i + 2)

RECURSIVE buildMerkleTree(_)
buildMerkleTree(leaves) ==
    IF Len(leaves) = 0 THEN sha256(EmptyStr)
    ELSE IF Len(leaves) = 1 THEN leaves[1]
    ELSE buildMerkleTree(buildParents(leaves, 1))

NewMerkleTree(data) ==
    IF Len(data) = 0
    THEN [Root |-> sha256(EmptyStr), Leaves |-> <<>>]
    ELSE LET leaves == [i \in 1..Len(data) |-> sha256(data[i])]
         IN [Root |-> buildMerkleTree(leaves), Leaves |-> leaves]

(***************************************************************************)
(* Blocks (core/block.go).  The wall clock of time.Now() is a logical      *)
(* clock that ticks once per block.                                        *)
(***************************************************************************)
calculateHash(block) ==
    sha256(Str("U+" \o ToString(block.Index)) \o block.Timestamp
           \o block.Data \o block.PrevHash)

\* A block that does not name its predecessor.
generateUnlinked(prevBlock, data) ==
    LET newBlock == [Index |-> prevBlock.Index + 1,
                     Timestamp |-> Str("t" \o ToString(prevBlock.Index + 1)),
                     Data |-> data,
                     PrevHash |-> EmptyStr,
                     Hash |-> EmptyStr]
    IN [newBlock EXCEPT !.Hash = calculateHash(newBlock)]

GenerateBlock(prevBlock, data) ==
    LET newBlock == [Index |-> prevBlock.Index + 1,
                     Timestamp |-> Str("t" \o ToString(prevBlock.Index + 1)),
                     Data |-> data,
                     PrevHash |-> prevBlock.Hash,
                     Hash |-> EmptyStr]
    IN [newBlock EXCEPT !.Hash = calculateHash(newBlock)]

GenesisBlock ==
    LET genesis == [Index |-> 0,
                    Timestamp |-> Str("t0"),
                    Data |-> Str("Genesis Block"),
                    PrevHash |-> EmptyStr,
                    Hash |-> EmptyStr]
    IN [genesis EXCEPT !.Hash = calculateHash(genesis)]

getDataStrings(blocks) == [i \in 1..Len(blocks) |-> blocks[i].Data]

(***************************************************************************)
(* Shards.  A shard is [ID, Blocks, Tree]; Tree is <<>> for Go's nil       *)
(* pointer and <<tree>> for a pointer to a Merkle tree.  A shard object    *)
(* lives in the index node that points to it.                              *)
(***************************************************************************)
NewShard(id) == [ID |-> id, Blocks |-> <<>>, Tree |-> <<>>]

Shard_AddBlock(s, block) ==
    LET blocks == Append(s.Blocks, block)
    IN [s EXCEPT !.Blocks = blocks,
                 !.Tree = <<NewMerkleTree(getDataStrings(blocks))>>]

GetRoot(s) == IF s.Tree # <<>> THEN s.Tree[1].Root ELSE EmptyStr

(***************************************************************************)
(* Red-black tree of shards.  Node 0 is the sentinel t.Nil, whose own      *)
(* pointers are Go's nil (GoNil); nodes 1..Len(t.nodes) are the allocated  *)
(* nodes in the order Insert made them.  A dereference of Go's nil sets    *)
(* the tree's panic flag.                                                  *)
(***************************************************************************)
Red == "Red"

Black == "Black"

Nil == 0

GoNil == -1

NewRBTree == [Root |-> Nil, nodes |-> <<>>, NilColor |-> Black, panic |-> FALSE]

ColorOf(t, n) == IF n = Nil THEN t.NilColor ELSE t.nodes[n].Color

ParentOf(t, n) == IF n = Nil THEN GoNil ELSE t.nodes[n].Parent

LeftOf(t, n) == IF n = Nil THEN GoNil ELSE t.nodes[n].Left

RightOf(t, n) == IF n = Nil THEN GoNil ELSE t.nodes[n].Right

SetColor(t, n, c) ==
    IF n = Nil THEN [t EXCEPT !.NilColor = c] ELSE [t EXCEPT !.nodes[n].Color = c]

Panic(t) == [t EXCEPT !.panic = TRUE]

\* One assignment to a pointer of node n, or to t.Root (n is then unused).
Assign(t, a) ==
    IF ~a.on THEN t
    ELSE IF a.f = "Root" THEN [t EXCEPT !.Root = a.v]
    ELSE IF a.n <= Nil THEN Panic(t)
    ELSE IF a.f = "Left" THEN [t EXCEPT !.nodes[a.n].Left = a.v]
    ELSE IF a.f = "Right" THEN [t EXCEPT !.nodes[a.n].Right = a.v]
    ELSE [t EXCEPT !.nodes[a.n].Parent = a.v]

RECURSIVE assignAll(_, _, _)
assignAll(t, as, i) ==
    IF i > Len(as) THEN t ELSE assignAll(Assign(t, as[i]), as, i + 1)

\* A rotation that does nothing: what fixInsert would work with if
\* leftRotate left the tree as it found it.
noRotate(t, x) == t

\* The assignments of leftRotate, in the order of lines 119-133.  The test
\* of line 127 reads x.Parent.Left, which no earlier line of the rotation
\* writes.
leftRotate(t, x) ==
    LET y == RightOf(t, x) IN
    IF y <= Nil THEN Panic(t)
    ELSE LET yl == t.nodes[y].Left
             xp == t.nodes[x].Parent
         IN assignAll(t,
              <<[n |-> x, f |-> "Right", v |-> yl, on |-> TRUE],
                [n |-> yl, f |-> "Parent", v |-> x, on |-> yl # Nil],
                [n |-> y, f |-> "Parent", v |-> xp, on |-> TRUE],
                [n |-> Nil, f |-> "Root", v |-> y, on |-> xp = Nil],
                [n |-> xp, f |-> "Left", v |-> y,
                 on |-> xp # Nil /\ x = LeftOf(t, xp)],
                [n |-> xp, f |-> "Right", v |-> y,
                 on |-> xp # Nil /\ x # LeftOf(t, xp)],
                [n |-> y, f |-> "Left", v |-> x, on |-> TRUE],
                [n |-> x, f |-> "Parent", v |-> y, on |-> TRUE]>>, 1)

\* The assignments of rightRotate, in the order of lines 138-152.
rightRotate(t, x) ==
    LET y == LeftOf(t, x) IN
    IF y <= Nil THEN Panic(t)
    ELSE LET yr == t.nodes[y].Right
             xp == t.nodes[x].Parent
         IN assignAll(t,
              <<[n |-> x, f |-> "Left", v |-> yr, on |-> TRUE],
                [n |-> yr, f |-> "Parent", v |-> x, on |-> yr # Nil],
                [n |-> y, f |-> "Parent", v |-> xp, on |-> TRUE],
                [n |-> Nil, f |-> "Root", v |-> y, on |-> xp = Nil],
                [n |-> xp, f |-> "Right", v |-> y,
                 on |-> xp # Nil /\ x = RightOf(t, xp)],
                [n |-> xp, f |-> "Left", v |-> y,
                 on |-> xp # Nil /\ x # RightOf(t, xp)],
                [n |-> y, f |-> "Right", v |-> x, on |-> TRUE],
                [n |-> x, f |-> "Parent", v |-> y, on |-> TRUE]>>, 1)

\* node.Parent.Parent; a dereference of Go's nil gives GoNil again.
Grandparent(t, node) ==
    IF ParentOf(t, node) = GoNil THEN GoNil ELSE ParentOf(t, ParentOf(t, node))

\* fixInsert (lines 75-115), one group of statements per value of at:
\*   "loop"     the loop test of line 76 and the branch of line 77
\*   "left"     lines 78-88: the uncle on the right; recolour, or rotate left
\*   "right"    lines 94-104: the mirror image
\*   "leftEnd"  lines 89-91,  "rightEnd"  lines 105-107
\*   "check"    lines 110-112: leave the loop at the root
\*   "exit"     line 114
RECURSIVE fixInsertAt(_, _, _)
fixInsertAt(t, node, at) ==
    IF t.panic THEN t
    ELSE IF at = "loop"
    THEN IF ColorOf(t, ParentOf(t, node)) # Red THEN fixInsertAt(t, node, "exit")
         ELSE IF Grandparent(t, node) = GoNil THEN Panic(t)
         ELSE IF ParentOf(t, node) = LeftOf(t, Grandparent(t, node))
         THEN fixInsertAt(t, node, "left")
         ELSE fixInsertAt(t, node, "right")
    ELSE IF at = "left"
    THEN IF RightOf(t, Grandparent(t, node)) = GoNil THEN Panic(t)
         ELSE IF ColorOf(t, RightOf(t, Grandparent(t, node))) = Red
         THEN fixInsertAt(
                  SetColor(SetColor(SetColor(t, ParentOf(t, node), Black),
                                    RightOf(t, Grandparent(t, node)), Black),
                           Grandparent(t, node), Red),
                  Grandparent(t, node), "check")
         ELSE IF node = RightOf(t, ParentOf(t, node))
         THEN fixInsertAt(leftRotate(t, ParentOf(t, node)), ParentOf(t, node), "leftEnd")
         ELSE fixInsertAt(t, node, "leftEnd")
    ELSE IF at = "leftEnd"
    THEN IF Grandparent(t, node) = GoNil THEN Panic(t)
         ELSE fixInsertAt(
                  rightRotate(SetColor(SetColor(t, ParentOf(t, node), Black),
                                       Grandparent(t, node), Red),
                              Grandparent(t, node)),
                  node, "check")
    ELSE IF at = "right"
    THEN IF LeftOf(t, Grandparent(t, node)) = GoNil THEN Panic(t)
         ELSE IF ColorOf(t, LeftOf(t, Grandparent(t, node))) = Red
         THEN fixInsertAt(
                  SetColor(SetColor(SetColor(t, ParentOf(t, node), Black),
                                    LeftOf(t, Grandparent(t, node)), Black),
                           Grandparent(t, node), Red),
                  Grandparent(t, node), "check")
         ELSE IF node = LeftOf(t, ParentOf(t, node))
         THEN fixInsertAt(rightRotate(t, ParentOf(t, node)), ParentOf(t, node), "rightEnd")
         ELSE fixInsertAt(t, node, "rightEnd")
    ELSE IF at = "rightEnd"
    THEN IF Grandparent(t, node) = GoNil THEN Panic(t)
         ELSE fixInsertAt(
                  leftRotate(SetColor(SetColor(t, ParentOf(t, node), Black),
                                      Grandparent(t, node), Red),
                             Grandparent(t, node)),
                  node, "check")
    ELSE IF at = "check"
    THEN IF node = t.Root THEN fixInsertAt(t, node, "exit")
         ELSE fixInsertAt(t, node, "loop")
    ELSE SetColor(t, t.Root, Black)

fixInsert(t, node) == fixInsertAt(t, node, "loop")

\* The descent of the binary-search insertion (lines 50-59): the parent found.
RECURSIVE findParent(_, _, _, _)
findParent(t, current, parent, id) ==
    IF current = Nil THEN parent
    ELSE IF id < t.nodes[current].Shard.ID
    THEN findParent(t, t.nodes[current].Left, current, id)
    ELSE findParent(t, t.nodes[current].Right, current, id)

\* Lines 61-68: the new node, Len(t.nodes) + 1, is hung under parent.
LinkNode(t, shard, parent) ==
    assignAll([t EXCEPT !.nodes = Append(t.nodes,
                   [Shard |-> shard, Color |-> Red, Left |-> Nil, Right |-> Nil,
                    Parent |-> parent])],
              <<[n |-> Nil, f |-> "Root", v |-> Len(t.nodes) + 1, on |-> parent = Nil],
                [n |-> parent, f |-> "Left", v |-> Len(t.nodes) + 1,
                 on |-> parent # Nil /\ shard.ID < t.nodes[parent].Shard.ID],
                [n |-> parent, f |-> "Right", v |-> Len(t.nodes) + 1,
                 on |-> parent # Nil /\ ~(shard.ID < t.nodes[parent].Shard.ID)]>>, 1)

RBTree_Insert(t, shard) ==
    fixInsert(LinkNode(t, shard, findParent(t, t.Root, Nil, shard.ID)),
              Len(t.nodes) + 1)

\* The nodes of the subtree in order; GetAllShards reads their shards.
RECURSIVE inOrderTraversal(_, _)
inOrderTraversal(t, node) ==
    IF node # Nil
    THEN inOrderTraversal(t, t.nodes[node].Left) \o <<node>>
         \o inOrderTraversal(t, t.nodes[node].Right)
    ELSE <<>>

GetAllShards(t) ==
    LET order == inOrderTraversal(t, t.Root)
    IN [i \in 1..Len(order) |-> t.nodes[order[i]].Shard]

(***************************************************************************)
(* Shard manager (the shard file, lines 53-165), on the index as a value.  *)
(***************************************************************************)
MinBlocksPerShard == 2

MaxBlocksPerShard == 3

NewShardManager == RBTree_Insert(NewRBTree, NewShard(0))

\* The node of the index holding the shard at place i (1-based) of GetAllShards.
NodeAt(t, i) == inOrderTraversal(t, t.Root)[i]

ShardAt(t, i) == t.nodes[NodeAt(t, i)].Shard

SetShardAt(t, i, s) == [t EXCEPT !.nodes[NodeAt(t, i)].Shard = s]

RECURSIVE addBlocks(_, _, _)
addBlocks(s, blocks, i) ==
    IF i > Len(blocks) THEN s ELSE addBlocks(Shard_AddBlock(s, blocks[i]), blocks, i + 1)

\* The ID RebalanceShards starts its new shards from (line 77).
FirstNewShardID(currentShards) == Len(currentShards)

\* A split that keeps every block in the original shard.
SplitNothing(blocks) == Len(blocks)

\* The blocks the original shard keeps in a split (lines 82-83).
SplitPoint(blocks) == Len(blocks) \div 2

RECURSIVE rebalanceLoop(_, _, _, _)
rebalanceLoop(currentShards, i, newTree, shardIDCounter) ==
    IF i > Len(currentShards) THEN newTree
    ELSE LET shard == currentShards[i] IN
         IF Len(shard.Blocks) > MaxBlocksPerShard
         THEN LET mid == SplitPoint(shard.Blocks)
                  leftBlocks == SubSeq(shard.Blocks, 1, mid)
                  rightBlocks == SubSeq(shard.Blocks, mid + 1, Len(shard.Blocks))
                  kept == [shard EXCEPT !.Blocks = leftBlocks,
                              !.Tree = <<NewMerkleTree(getDataStrings(leftBlocks))>>]
                  newShard == addBlocks(NewShard(shardIDCounter), rightBlocks, 1)
              IN rebalanceLoop(currentShards, i + 1,
                               RBTree_Insert(RBTree_Insert(newTree, kept), newShard),
                               shardIDCounter + 1)
         ELSE rebalanceLoop(currentShards, i + 1, RBTree_Insert(newTree, shard),
                            shardIDCounter)

RebalanceShards(t) ==
    LET currentShards == GetAllShards(t)
    IN rebalanceLoop(currentShards, 1, NewRBTree, FirstNewShardID(currentShards))

DistributeBlock(t, block) ==
    LET shards == GetAllShards(t)
        last == Len(shards)
    IN RebalanceShards(SetShardAt(t, last, Shard_AddBlock(shards[last], block)))

RECURSIVE mergeLoop(_, _, _, _, _)
mergeLoop(currentShards, i, newTree, used, threshold) ==
    IF i > Len(currentShards) THEN newTree
    ELSE IF i \in used THEN mergeLoop(currentShards, i + 1, newTree, used, threshold)
    ELSE LET current == currentShards[i] IN
         IF Len(current.Blocks) < threshold /\ i + 1 <= Len(currentShards)
            /\ (i + 1) \notin used
         THEN LET next == currentShards[i + 1]
                  blocks == current.Blocks \o next.Blocks
                  merged == [NewShard(current.ID) EXCEPT !.Blocks = blocks,
                                !.Tree = <<NewMerkleTree(getDataStrings(blocks))>>]
              IN mergeLoop(currentShards, i + 1, RBTree_Insert(newTree, merged),
                           used \cup {i, i + 1}, threshold)
         ELSE mergeLoop(currentShards, i + 1, RBTree_Insert(newTree, current),
                        used \cup {i}, threshold)

\* A merge that also absorbs into a shard holding exactly threshold blocks.
mergeAtThreshold(t, threshold) ==
    mergeLoop(GetAllShards(t), 1, NewRBTree, {}, threshold + 1)

MergeShards(t, threshold) == mergeLoop(GetAllShards(t), 1, NewRBTree, {}, threshold)

(***************************************************************************)
(* Homomorphic authenticator and the two-phase transfer                    *)
(* (core/homomorphic_auth.go, and SyncManager.SyncBlock).  Shards are      *)
(* named by their place in GetAllShards; blockIndex is 0-based as in Go.   *)
(* A transfer ID "S-D-i" is the triple of the three numbers it prints.     *)
(***************************************************************************)
AuthenticateData(key, data) == hmacSha256(key, data)

VerifyAuthentication(key, data, commitment) == commitment = AuthenticateData(key, data)

\* CombineCommitments: the values and the commitments concatenated, the
\* concatenated commitments authenticated anew.
RECURSIVE concatField(_, _, _)
concatField(commitments, field, i) ==
    IF i > Len(commitments) THEN EmptyStr
    ELSE commitments[i][field] \o concatField(commitments, field, i + 1)

CombineCommitments(key, commitments) ==
    [Value |-> concatField(commitments, "Value", 1),
     Commitment |-> AuthenticateData(key, concatField(commitments, "Commitment", 1))]

partialStateOf(block) == block.Hash \o Str(":") \o block.Data

TransferID(source, destination, blockIndex) == <<source.ID, destination.ID, blockIndex>>

MapPut(m, k, v) == [x \in DOMAIN m \cup {k} |-> IF x = k THEN v ELSE m[x]]

MapDelete(m, k) == [x \in DOMAIN m \ {k} |-> m[x]]

EmptyMap == [x \in {} |-> 0]

\* A removal that drops the last block whatever the index.
RemoveLast(blocks, blockIndex) == SubSeq(blocks, 1, Len(blocks) - 1)

\* append(source.Blocks[:blockIndex], source.Blocks[blockIndex+1:]...)
RemoveAt(blocks, blockIndex) ==
    SubSeq(blocks, 1, blockIndex) \o SubSeq(blocks, blockIndex + 2, Len(blocks))

\* The trees SyncBlock and the rollback rebuild last: source's, then destination's.
RebuildTrees(t, src, dst) ==
    LET t1 == SetShardAt(t, src, [ShardAt(t, src) EXCEPT
                  !.Tree = <<NewMerkleTree(getDataStrings(ShardAt(t, src).Blocks))>>])
    IN SetShardAt(t1, dst, [ShardAt(t1, dst) EXCEPT
                  !.Tree = <<NewMerkleTree(getDataStrings(ShardAt(t1, dst).Blocks))>>])

SyncBlock(t, src, dst, blockIndex) ==
    IF blockIndex < 0 \/ blockIndex >= Len(ShardAt(t, src).Blocks)
    THEN [ret |-> FALSE, tree |-> t]
    ELSE LET block == ShardAt(t, src).Blocks[blockIndex + 1]
             t1 == SetShardAt(t, dst, Shard_AddBlock(ShardAt(t, dst), block))
             t2 == SetShardAt(t1, src, [ShardAt(t1, src) EXCEPT
                       !.Blocks = RemoveAt(ShardAt(t1, src).Blocks, blockIndex)])
         IN [ret |-> TRUE, tree |-> RebuildTrees(t2, src, dst)]

\* A prepare that checks the commitment against the key of main's first manager.
prepareWithFirstKey(key, t, src, dst, state) ==
    LET block == ShardAt(t, src).Blocks[state.BlockIndex + 1]
    IN IF ~VerifyAuthentication(Str("secret-key-123"), partialStateOf(block),
                                state.Commitment) THEN "fail"
       ELSE IF src = dst THEN "hang"
       ELSE "ok"

\* "ok", "fail" (the commitment check), or "hang": the second Lock of one
\* shard's mutex by the thread that holds it never returns.
prepareTransfer(key, t, src, dst, state) ==
    LET block == ShardAt(t, src).Blocks[state.BlockIndex + 1]
    IN IF ~VerifyAuthentication(key, partialStateOf(block), state.Commitment) THEN "fail"
       ELSE IF src = dst THEN "hang"
       ELSE "ok"

CreateAuthenticatedTransfer(key, pendingTransfers, t, src, dst, blockIndex) ==
    LET source == ShardAt(t, src)
        destination == ShardAt(t, dst)
    IN IF blockIndex < 0 \/ blockIndex >= Len(source.Blocks)
       THEN [ret |-> FALSE, hang |-> FALSE, pendingTransfers |-> pendingTransfers]
       ELSE LET block == source.Blocks[blockIndex + 1]
                commitment == AuthenticateData(key, partialStateOf(block))
                transferID == TransferID(source, destination, blockIndex)
                transferState == [SourceShard |-> source.ID,
                                  DestShard |-> destination.ID,
                                  BlockIndex |-> blockIndex,
                                  Commitment |-> commitment,
                                  Prepared |-> FALSE,
                                  SourceSnapshot |-> source.Blocks,
                                  DestSnapshot |-> destination.Blocks]
                prepared == prepareTransfer(key, t, src, dst, transferState)
            IN IF prepared = "fail"
               THEN [ret |-> FALSE, hang |-> FALSE,
                     pendingTransfers |-> MapDelete(pendingTransfers, transferID)]
               ELSE [ret |-> prepared = "ok", hang |-> prepared = "hang",
                     pendingTransfers |-> MapPut(pendingTransfers, transferID,
                         [transferState EXCEPT !.Prepared = prepared = "ok"])]

\* The rollback of VerifyAndApplyTransfer (lines 178-197).
Rollback(t, src, dst, transferState) ==
    LET t1 == SetShardAt(t, src, [ShardAt(t, src) EXCEPT
                  !.Blocks = transferState.SourceSnapshot])
        t2 == SetShardAt(t1, dst, [ShardAt(t1, dst) EXCEPT
                  !.Blocks = transferState.DestSnapshot])
    IN RebuildTrees(t2, src, dst)

\* The index check at commit (lines 160-164): whether the call goes on.
CommitIndexValid(blockIndex, source) ==
    ~(blockIndex < 0 \/ blockIndex >= Len(source.Blocks))

\* A commit that moves the block even when the table holds no prepared entry.
verifyWithoutPrepare(key, pendingTransfers, t, src, dst, blockIndex) ==
    LET source == ShardAt(t, src)
        destination == ShardAt(t, dst)
        transferID == TransferID(source, destination, blockIndex)
        exists == transferID \in DOMAIN pendingTransfers
        synced == SyncBlock(t, src, dst, blockIndex)
    IN IF ~exists \/ ~pendingTransfers[transferID].Prepared
       THEN [ret |-> synced.ret, found |-> FALSE, tree |-> synced.tree,
             pendingTransfers |-> pendingTransfers]
       ELSE IF ~CommitIndexValid(blockIndex, source)
       THEN [ret |-> FALSE, found |-> TRUE, tree |-> t,
             pendingTransfers |-> pendingTransfers]
       ELSE LET transferState == pendingTransfers[transferID]
                block == source.Blocks[blockIndex + 1]
                verified == VerifyAuthentication(key, partialStateOf(block),
                                                 transferState.Commitment)
            IN IF verified /\ synced.ret
               THEN [ret |-> TRUE, found |-> TRUE, tree |-> synced.tree,
                     pendingTransfers |-> MapDelete(pendingTransfers, transferID)]
               ELSE [ret |-> FALSE, found |-> TRUE,
                     tree |-> Rollback(IF verified THEN synced.tree ELSE t,
                                       src, dst, transferState),
                     pendingTransfers |-> MapDelete(pendingTransfers, transferID)]

VerifyAndApplyTransfer(key, pendingTransfers, t, src, dst, blockIndex) ==
    LET source == ShardAt(t, src)
        destination == ShardAt(t, dst)
        transferID == TransferID(source, destination, blockIndex)
        exists == transferID \in DOMAIN pendingTransfers
    IN IF ~exists \/ ~pendingTransfers[transferID].Prepared
       THEN [ret |-> FALSE, found |-> FALSE, tree |-> t,
             pendingTransfers |-> pendingTransfers]
       ELSE IF ~CommitIndexValid(blockIndex, source)
       THEN [ret |-> FALSE, found |-> TRUE, tree |-> t,
             pendingTransfers |-> pendingTransfers]
       ELSE LET transferState == pendingTransfers[transferID]
                block == source.Blocks[blockIndex + 1]
                verified == VerifyAuthentication(key, partialStateOf(block),
                                                 transferState.Commitment)
                synced == SyncBlock(t, src, dst, blockIndex)
            IN IF verified /\ synced.ret
               THEN [ret |-> TRUE, found |-> TRUE, tree |-> synced.tree,
                     pendingTransfers |-> MapDelete(pendingTransfers, transferID)]
               ELSE [ret |-> FALSE, found |-> TRUE,
                     tree |-> Rollback(IF verified THEN synced.tree ELSE t,
                                       src, dst, transferState),
                     pendingTransfers |-> MapDelete(pendingTransfers, transferID)]

(***************************************************************************)
(* The state of the single-threaded ledger.                                *)
(*   tree         sm.Shards, the index with the shard objects in its nodes *)
(*   pending      esm.pendingTransfers of every enhanced sync manager      *)
(*   distributed  the blocks handed to DistributeBlock so far, in order    *)
(*   last         the call that returned last: arguments, result, and the  *)
(*                block sequences of its two shards before it ran          *)
(*   halted       the Go runtime stopped the program (a call never returns)*)
(*   calls        the number of calls made to the transfer managers so far  *)
(*   pc           where main is, in the specification that runs main        *)
(* The fields of last: op, mgr, src, dst, idx and ret are the call; found  *)
(* says that the commit found its transfer prepared; afterCreate that the  *)
(* commit came straight after its own prepare; prior is, in main, what the *)
(* commit before this call returned; preS and preD are the block sequences *)
(* of the two shards before the call, snapS and snapD the snapshots of the *)
(* transfer the commit found.                                              *)
(***************************************************************************)
VARIABLES tree, pending, distributed, last, halted, calls, pc

ledgerVars == <<tree, pending, distributed, last, halted, calls, pc>>

(***************************************************************************)
(* The state of the threads that run transfers concurrently.               *)
(*   thr    every thread's position in its call, the arguments of the      *)
(*          transfer it runs, and the locals of the call                   *)
(*   locks  the holder (0: nobody) of every sync.Mutex: esm.mutex and      *)
(*          syncManager.mutex of every manager, Shard.mutex of every shard *)
(***************************************************************************)
VARIABLES thr, locks

threadVars == <<thr, locks>>

(***************************************************************************)
(* The components main demonstrates next to the ledger, as constructed.    *)
(***************************************************************************)
\* NewBlockchain: the chain holds the genesis block.
NewBlockchain == [Blocks |-> <<GenesisBlock>>]

NewStatePruner(maxHeight, retention, useCheckpoints) ==
    [policy |-> [MaxHeight |-> maxHeight, RetentionCount |-> retention,
                 UseCheckpoints |-> useCheckpoints],
     integrityProofs |-> <<>>,
     merkleRoot |-> EmptyStr,
     secretKey |-> Str("pruning-integrity-key")]

\* The two factors of the accumulator's modulus and its generator.
AccP == 251
AccQ == 239
AccG == 3

NewRSAAccumulator ==
    [N |-> AccP * AccQ, G |-> AccG, State |-> AccG, Elements |-> <<>>, Proofs |-> EmptyMap]

\* A trie is the set of its nodes, a node named by the bytes on the path
\* from the root; node p has a child under byte b iff Append(p, b) is a node.
NewSuccinctTrie == [p \in {<<>>} |-> [Value |-> EmptyStr, Hash |-> EmptyStr]]

NewVectorClock == [clock |-> EmptyMap]

\* NewOrchestrator: the level starts at Strong; the metrics are Go's zero values.
NewOrchestrator == [CurrentLevel |-> "Strong", LastLatency |-> 0, ErrorRate |-> 0]

NewStateManager(maxActive) ==
    [PrunedBlocks |-> <<>>,
     ActiveBlocks |-> <<>>,
     ActiveTrie |-> NewSuccinctTrie,
     ArchiveTrie |-> NewSuccinctTrie,
     MaxActiveCount |-> maxActive]

(***************************************************************************)
(* The RSA accumulator (core/block.go).  big.Int arithmetic modulo         *)
(* N = 251 * 239 is done on machine integers.  The elements are the        *)
(* strings of TestAccumulator.  G is coprime to N, so G^x mod N depends on *)
(* x only modulo (251-1)*(239-1) = 59500: the 256-bit SHA-256 value of an  *)
(* element is kept as its residue modulo 59500, which has the parity of    *)
(* the value.                                                              *)
(***************************************************************************)
AccElements == {Str("block_hash_1"), Str("block_hash_2"), Str("block_hash_3"),
                Str("block_hash_4")}

\* new(big.Int).SetBytes(sha256.Sum256(data)), modulo 59500
digestInt(data) ==
    CASE data = Str("block_hash_1") -> 36910
      [] data = Str("block_hash_2") -> 40053
      [] data = Str("block_hash_3") -> 3140
      [] data = Str("block_hash_4") -> 57308

\* x * y mod n for x, y < n < 2^16, in two partial products that fit a
\* machine integer.
MulMod(x, y, n) == (((x * (y \div 256)) % n) * 256 + x * (y % 256)) % n

\* big.Int.Exp(x, y, n) by repeated squaring; the values of one round are
\* bound before the next round starts.
RECURSIVE PowLoop(_, _, _, _)
PowLoop(result, base, exp, n) ==
    IF exp = 0 THEN result
    ELSE CHOOSE out \in {PowLoop(r, b, e, n) :
                            r \in {IF exp % 2 = 1 THEN MulMod(result, base, n) ELSE result},
                            b \in {MulMod(base, base, n)},
                            e \in {exp \div 2}} : TRUE

PowMod(x, y, n) == PowLoop(1 % n, x % n, y, n)

hashToPrime(data) ==
    LET hashInt == digestInt(data)
    IN IF hashInt % 2 = 0 THEN hashInt + 1 ELSE hashInt

\* The loop of AddElement over acc.Elements, from element i on.
RECURSIVE proofLoop(_, _, _, _)
proofLoop(a, element, proof, i) ==
    IF i > Len(a.Elements) THEN proof
    ELSE proofLoop(a, element,
                   IF a.Elements[i] # element
                   THEN PowMod(proof, hashToPrime(a.Elements[i]), a.N)
                   ELSE proof,
                   i + 1)

AddElement(a, element) ==
    LET added == [a EXCEPT !.State = PowMod(a.State, hashToPrime(element), a.N),
                           !.Elements = Append(a.Elements, element)]
    IN [added EXCEPT !.Proofs = MapPut(a.Proofs, element,
                                       proofLoop(added, element, a.G, 1))]

VerifyMembership(a, element, proof) ==
    PowMod(proof, hashToPrime(element), a.N) = a.State

(***************************************************************************)
(* The chain (unnamed/part_003) and the state pruner (core/merkle_tree.go).*)
(* An operation returns the objects as it leaves them and panic, TRUE when *)
(* the Go runtime stops it (index out of range, integer divide by zero).   *)
(***************************************************************************)
Blockchain_AddBlock(b, data) ==
    IF Len(b.Blocks) = 0
    THEN [bc |-> b, panic |-> TRUE]
    ELSE [bc |-> [b EXCEPT !.Blocks = Append(b.Blocks,
                                              GenerateBlock(b.Blocks[Len(b.Blocks)], data))],
          panic |-> FALSE]

\* fmt.Sprintf("%d", n): the decimal digits of n, a minus sign first
RECURSIVE Sprintf_d(_)
Sprintf_d(n) ==
    IF n < 0 THEN Str("-") \o Sprintf_d(0 - n)
    ELSE IF n < 10 THEN Str(ToString(n))
    ELSE Sprintf_d(n \div 10) \o Str(ToString(n % 10))

\* A proof signed without the pruner's key.
createUnkeyedProof(p, rootHash, count) ==
    [RootHash |-> rootHash, PrunedCount |-> count,
     Timestamp |-> Len(p.integrityProofs),
     Signature |-> sha256(rootHash \o Sprintf_d(count))]

\* time.Now() is a logical clock: the number of proofs made before.
createIntegrityProof(p, rootHash, count) ==
    [RootHash |-> rootHash, PrunedCount |-> count,
     Timestamp |-> Len(p.integrityProofs),
     Signature |-> sha256(rootHash \o Sprintf_d(count) \o p.secretKey)]

\* Go's x % y for y # 0: the remainder has the sign of x.
GoRem(x, y) ==
    LET m == IF y < 0 THEN 0 - y ELSE y
    IN IF x >= 0 THEN x % m ELSE 0 - ((0 - x) % m)

\* A checkpoint rounding that rounds nothing.
roundNothing(prunableCount, maxHeight) == prunableCount

\* A rounding that keeps a count below one checkpoint interval as it is.
roundOrKeep(prunableCount, maxHeight) ==
    IF prunableCount - GoRem(prunableCount, maxHeight) = 0
    THEN prunableCount
    ELSE prunableCount - GoRem(prunableCount, maxHeight)

\* prunableCount - (prunableCount % sp.policy.MaxHeight), line 142
roundToCheckpoint(prunableCount, maxHeight) ==
    prunableCount - GoRem(prunableCount, maxHeight)

\* The hash over the hashes of the first count blocks, lines 150-154.
RECURSIVE prunedHashes(_, _, _)
prunedHashes(blocks, count, i) ==
    IF i >= count THEN EmptyStr
    ELSE blocks[i + 1].Hash \o prunedHashes(blocks, count, i + 1)

\* A prune that drops the blocks and stores no proof.
pruneSilently(p, b, prunableCount) ==
    [ret |-> prunableCount, sp |-> p,
     bc |-> [b EXCEPT !.Blocks = SubSeq(b.Blocks, prunableCount + 1, Len(b.Blocks))],
     panic |-> FALSE]

\* Lines 149-166, for prunableCount > 0.
pruneApply(p, b, prunableCount) ==
    IF prunableCount > Len(b.Blocks)
    THEN [ret |-> 0, sp |-> p, bc |-> b, panic |-> TRUE]
    ELSE LET rootHash == sha256(prunedHashes(b.Blocks, prunableCount, 0))
             proof == createIntegrityProof(p, rootHash, prunableCount)
         IN [ret |-> prunableCount,
             sp |-> [p EXCEPT !.integrityProofs = Append(p.integrityProofs, proof),
                              !.merkleRoot = rootHash],
             bc |-> [b EXCEPT !.Blocks = SubSeq(b.Blocks, prunableCount + 1, Len(b.Blocks))],
             panic |-> FALSE]

\* From the rounding on, lines 140-166.
pruneFrom(p, b, prunableCount) ==
    IF p.policy.UseCheckpoints /\ p.policy.MaxHeight = 0
    THEN [ret |-> 0, sp |-> p, bc |-> b, panic |-> TRUE]
    ELSE LET rounded == IF p.policy.UseCheckpoints
                        THEN roundToCheckpoint(prunableCount, p.policy.MaxHeight)
                        ELSE prunableCount
         IN IF rounded <= 0
            THEN [ret |-> 0, sp |-> p, bc |-> b, panic |-> FALSE]
            ELSE pruneApply(p, b, rounded)

PruneBlockchain(p, b) ==
    IF Len(b.Blocks) <= p.policy.RetentionCount
    THEN [ret |-> 0, sp |-> p, bc |-> b, panic |-> FALSE]
    ELSE pruneFrom(p, b, Len(b.Blocks) - p.policy.RetentionCount)

VerifyIntegrity(p, proof) ==
    sha256(proof.RootHash \o Sprintf_d(proof.PrunedCount) \o p.secretKey) = proof.Signature

\* The index in integrityProofs of the proof GetLatestProof points to; 0 for nil.
GetLatestProof(p) == Len(p.integrityProofs)

(***************************************************************************)
(* The succinct trie (unnamed/part_001, lines 324-418).  A key is a string *)
(* of one-byte characters and names the node at the end of its path; the   *)
(* Children map of node p holds byte b iff p \o b is a node.  Go ranges    *)
(* over a map in an order it chooses, so a node with several children has  *)
(* one possible hash per order and Insert has several possible outcomes.   *)
(* Where the key is a hex digest (the state manager's tries), the digest   *)
(* is one step of the path: two digests part ways at the node where their  *)
(* paths fork, here the root.                                              *)
(***************************************************************************)
TrieBytes == {Str("a"), Str("b")}

Children(t, p) ==
    {<<q[Len(p) + 1]>> : q \in {x \in DOMAIN t : Len(x) = Len(p) + 1 /\ SubSeq(x, 1, Len(p)) = p}}

\* The orders in which a range over the set s may visit it.
Orders(s) ==
    {o \in [1..Cardinality(s) -> s] : \A i, j \in 1..Cardinality(s) : o[i] = o[j] => i = j}

RECURSIVE childData(_, _, _, _)
childData(t, p, order, i) ==
    IF i > Len(order) THEN EmptyStr
    ELSE order[i] \o t[p \o order[i]].Hash \o childData(t, p, order, i + 1)

\* computeNodeHash when the range visits the children in the given order
computeNodeHash(t, p, order) == sha256(t[p].Value \o childData(t, p, order, 1))

NodeHashes(t, p) == {computeNodeHash(t, p, order) : order \in Orders(Children(t, p))}

\* The nodes of t, every node after all nodes below it.
RECURSIVE deepFirst(_, _)
deepFirst(paths, len) ==
    IF paths = {} THEN <<>>
    ELSE LET level == {p \in paths : Len(p) = len}
         IN IF level = {}
            THEN deepFirst(paths, len - 1)
            ELSE LET p == CHOOSE q \in level : TRUE
                 IN <<p>> \o deepFirst(paths \ {p}, len)

\* updateHashes: the tries it may leave, hashing the nodes of todo in turn.
RECURSIVE updateHashesFrom(_, _, _)
updateHashesFrom(t, todo, i) ==
    IF i > Len(todo) THEN {t}
    ELSE UNION {updateHashesFrom([t EXCEPT ![todo[i]].Hash = h], todo, i + 1) :
                   h \in NodeHashes(t, todo[i])}

updateHashes(t) ==
    LET longest == CHOOSE n \in 0..Cardinality(DOMAIN t) :
                       /\ \A p \in DOMAIN t : Len(p) <= n
                       /\ \E p \in DOMAIN t : Len(p) = n
    IN updateHashesFrom(t, deepFirst(DOMAIN t, longest), 1)

\* The path of key, its missing nodes created with an empty value.
withPath(t, key) ==
    [p \in DOMAIN t \cup {SubSeq(key, 1, n) : n \in 0..Len(key)} |->
        IF p \in DOMAIN t THEN t[p] ELSE [Value |-> EmptyStr, Hash |-> EmptyStr]]

\* The tries SuccinctTrie.Insert may leave.
Trie_Insert(t, key, value) ==
    updateHashes([withPath(t, key) EXCEPT ![key].Value = value])

\* SuccinctTrie.Get: the value and the flag it returns.
Trie_Get(t, key) ==
    IF key \notin DOMAIN t THEN <<EmptyStr, FALSE>>
    ELSE IF t[key].Value # EmptyStr THEN <<t[key].Value, TRUE>>
    ELSE <<EmptyStr, FALSE>>

GetMerkleRoot(t) == t[<<>>].Hash

(***************************************************************************)
(* Vector clocks (core/adaptive_cap.go, lines 8-60).  A clock is its map   *)
(* from node IDs to uint64 timestamps; a node the map does not hold reads  *)
(* as 0.  The runs are too short for a timestamp to wrap.                  *)
(***************************************************************************)
VC_Get(c, nodeID) == IF nodeID \in DOMAIN c.clock THEN c.clock[nodeID] ELSE 0

VC_Update(c, nodeID) == [c EXCEPT !.clock = MapPut(c.clock, nodeID, VC_Get(c, nodeID) + 1)]

\* A merge that takes every timestamp of the other clock.
VC_Overwrite(c, other) ==
    [c EXCEPT !.clock = [n \in DOMAIN c.clock \cup DOMAIN other.clock |->
                            IF n \in DOMAIN other.clock THEN other.clock[n] ELSE c.clock[n]]]

\* The loop of Merge over the entries of other.clock still to visit.
RECURSIVE vcMergeLoop(_, _, _)
vcMergeLoop(c, other, todo) ==
    IF todo = {} THEN c
    ELSE LET nodeID == CHOOSE n \in todo : TRUE
             timestamp == other.clock[nodeID]
         IN vcMergeLoop(IF VC_Get(c, nodeID) < timestamp
                        THEN [c EXCEPT !.clock = MapPut(c.clock, nodeID, timestamp)]
                        ELSE c,
                        other, todo \ {nodeID})

VC_Merge(c, other) == vcMergeLoop(c, other, DOMAIN other.clock)

VC_Clone(c) == [clock |-> [n \in DOMAIN c.clock |-> c.clock[n]]]

(***************************************************************************)
(* The default capacity policy (core/adaptive_cap.go, lines 77-117).  A    *)
(* float64 is a decimal number in thousandths (1.0 is 1000), exact for the *)
(* inputs used; a time.Duration is a number of microseconds.               *)
(***************************************************************************)
FxOne == 1000

Fx(n) == n * FxOne

\* x * y, the larger factor second
FxMul(x, y) == x * (y \div FxOne) + (x * (y % FxOne)) \div FxOne

\* x / y for a whole number y (y % FxOne = 0)
FxDiv(x, y) == x \div (y \div FxOne)

\* Duration.Milliseconds(): whole milliseconds, the rest cut off
Milliseconds(d) == d \div 1000

NewDefaultAdaptivePolicy ==
    [baseCapacity |-> Fx(100), maxCapacity |-> Fx(1000),
     latencyFactor |-> 500, errorFactor |-> Fx(2)]

\* The policy without its bounds.
adjustUnbounded(p, metrics) ==
    p.baseCapacity
        - FxDiv(FxMul(p.latencyFactor, Fx(Milliseconds(metrics.Latency))), Fx(100))
        - FxMul(FxMul(p.errorFactor, metrics.ErrorRate), p.baseCapacity)

AdjustCapacity(p, metrics) ==
    LET latencyMs == Fx(Milliseconds(metrics.Latency))
        latencyAdjustment == FxDiv(FxMul(p.latencyFactor, latencyMs), Fx(100))
        errorAdjustment == FxMul(FxMul(p.errorFactor, metrics.ErrorRate), p.baseCapacity)
        capacity == p.baseCapacity - latencyAdjustment - errorAdjustment
    IN IF capacity < 0 THEN 0
       ELSE IF capacity > p.maxCapacity THEN p.maxCapacity
       ELSE capacity

(***************************************************************************)
(* The adaptive capacity manager (core/adaptive_cap.go, lines 119-245).    *)
(* A time.Time is a number of ticks of the wall clock.  A *VectorClock is  *)
(* the empty sequence for nil and a sequence of one clock otherwise.  The  *)
(* clocks handed in are other clocks than the manager's own, which it      *)
(* gives out only as a clone (GetVectorClock).                             *)
(***************************************************************************)
\* NewAdaptiveCapacityManager keeps 100 metrics per node (line 136).
HistoryLimit == 100

NewAdaptiveCapacityManager ==
    [nodeCapacities |-> EmptyMap,
     nodeLastUpdate |-> EmptyMap,
     metricHistory |-> EmptyMap,
     historyLimit |-> HistoryLimit,
     policy |-> NewDefaultAdaptivePolicy,
     vectorClock |-> NewVectorClock]

\* The history of nodeID with metrics appended, the oldest entry dropped
\* when the list is longer than the limit.
historyWith(m, nodeID, metrics) ==
    LET history == IF nodeID \in DOMAIN m.metricHistory
                   THEN Append(m.metricHistory[nodeID], metrics)
                   ELSE <<metrics>>
    IN MapPut(m.metricHistory, nodeID,
              IF Len(history) > m.historyLimit THEN Tail(history) ELSE history)

\* A RecordMetrics that merges the incoming clock without counting the
\* report itself.
recordMergeOnly(m, metrics, now) ==
    [m EXCEPT
       !.vectorClock = IF metrics.VectorClock # <<>>
                       THEN VC_Merge(m.vectorClock, metrics.VectorClock[1])
                       ELSE VC_Update(m.vectorClock, metrics.NodeID),
       !.metricHistory = historyWith(m, metrics.NodeID, metrics),
       !.nodeCapacities = MapPut(@, metrics.NodeID, AdjustCapacity(m.policy, metrics)),
       !.nodeLastUpdate = MapPut(@, metrics.NodeID, now)]

\* RecordMetrics, where time.Now() reads now.
RecordMetrics(m, metrics, now) ==
    LET updated == VC_Update(m.vectorClock, metrics.NodeID)
    IN [m EXCEPT
          !.vectorClock = IF metrics.VectorClock # <<>>
                          THEN VC_Merge(updated, metrics.VectorClock[1])
                          ELSE updated,
          !.metricHistory = historyWith(m, metrics.NodeID, metrics),
          !.nodeCapacities = MapPut(@, metrics.NodeID, AdjustCapacity(m.policy, metrics)),
          !.nodeLastUpdate = MapPut(@, metrics.NodeID, now)]

GetNodeCapacity(m, nodeID) ==
    IF nodeID \in DOMAIN m.nodeCapacities THEN m.nodeCapacities[nodeID]
    ELSE m.policy.baseCapacity

\* A loop body that also adopts a metric as old as the last update.
syncEntryNotEarlier(m, nodeID, metrics) ==
    IF nodeID \notin DOMAIN m.nodeLastUpdate \/ metrics.Timestamp >= m.nodeLastUpdate[nodeID]
    THEN [m EXCEPT
            !.metricHistory = historyWith(m, nodeID, metrics),
            !.nodeCapacities = MapPut(@, nodeID, AdjustCapacity(m.policy, metrics)),
            !.nodeLastUpdate = MapPut(@, nodeID, metrics.Timestamp)]
    ELSE m

\* The body of SyncWithPeer's loop for one entry of peerMetrics.
syncEntry(m, nodeID, metrics) ==
    IF nodeID \notin DOMAIN m.nodeLastUpdate \/ metrics.Timestamp > m.nodeLastUpdate[nodeID]
    THEN [m EXCEPT
            !.metricHistory = historyWith(m, nodeID, metrics),
            !.nodeCapacities = MapPut(@, nodeID, AdjustCapacity(m.policy, metrics)),
            !.nodeLastUpdate = MapPut(@, nodeID, metrics.Timestamp)]
    ELSE m

\* The loop over peerMetrics.  Every key is visited once and an entry
\* touches the maps under its own key only, so the order of the range does
\* not show in the result.
RECURSIVE syncLoop(_, _, _)
syncLoop(m, peerMetrics, todo) ==
    IF todo = {} THEN m
    ELSE LET nodeID == CHOOSE n \in todo : TRUE
         IN syncLoop(syncEntry(m, nodeID, peerMetrics[nodeID]), peerMetrics, todo \ {nodeID})

SyncWithPeer(m, peerMetrics, peerVC) ==
    syncLoop(IF peerVC # <<>>
             THEN [m EXCEPT !.vectorClock = VC_Merge(m.vectorClock, peerVC[1])]
             ELSE m,
             peerMetrics, DOMAIN peerMetrics)

GetVectorClock(m) == VC_Clone(m.vectorClock)

(***************************************************************************)
(* The consistency orchestrator (core/consistency.go).  A latency is a     *)
(* time.Duration in microseconds, an error rate a number of thousandths.   *)
(***************************************************************************)
\* An evaluation that never lowers the level below the one it finds.
evaluateSticky(o, latency, errorRate) ==
    [CurrentLevel |->
        IF latency > 250 * 1000 \/ errorRate > 80 \/ o.CurrentLevel = "Eventual"
        THEN "Eventual"
        ELSE IF latency > 100 * 1000 \/ errorRate > 30 \/ o.CurrentLevel = "Causal"
        THEN "Causal"
        ELSE "Strong",
     LastLatency |-> latency,
     ErrorRate |-> errorRate]

EvaluateNetwork(o, latency, errorRate) ==
    [CurrentLevel |->
        IF latency > 250 * 1000 \/ errorRate > 80 THEN "Eventual"
        ELSE IF latency > 100 * 1000 \/ errorRate > 30 THEN "Causal"
        ELSE "Strong",
     LastLatency |-> latency,
     ErrorRate |-> errorRate]

(***************************************************************************)
(* The state manager (core/adaptive_cap.go, lines 253-311).  AddBlock      *)
(* inserts into one trie or two, so it has one outcome per outcome of the  *)
(* inserts.                                                                *)
(***************************************************************************)
ArchivedBlock(block) == [Index |-> block.Index, Data |-> block.Data, Hash |-> block.Hash]

\* An AddBlock that archives the block it was given, not the oldest one.
addBlockEvictNewest(sm, block) ==
    LET active == Append(sm.ActiveBlocks, block)
        activeTries == Trie_Insert(sm.ActiveTrie, block.Hash, block.Data)
    IN IF Len(active) > sm.MaxActiveCount
       THEN {[sm EXCEPT !.PrunedBlocks = Append(@, ArchivedBlock(block)),
                        !.ActiveBlocks = SubSeq(active, 1, Len(active) - 1),
                        !.ActiveTrie = a,
                        !.ArchiveTrie = r] :
                a \in activeTries,
                r \in Trie_Insert(sm.ArchiveTrie, block.Hash, block.Data)}
       ELSE {[sm EXCEPT !.ActiveBlocks = active, !.ActiveTrie = a] : a \in activeTries}

\* An AddBlock that archives the oldest block without entering it in the
\* archive trie.
addBlockWithoutArchive(sm, block) ==
    LET active == Append(sm.ActiveBlocks, block)
        activeTries == Trie_Insert(sm.ActiveTrie, block.Hash, block.Data)
    IN IF Len(active) > sm.MaxActiveCount
       THEN {[sm EXCEPT !.PrunedBlocks = Append(@, ArchivedBlock(active[1])),
                        !.ActiveBlocks = SubSeq(active, 2, Len(active)),
                        !.ActiveTrie = a] : a \in activeTries}
       ELSE {[sm EXCEPT !.ActiveBlocks = active, !.ActiveTrie = a] : a \in activeTries}

StateManager_AddBlock(sm, block) ==
    LET active == Append(sm.ActiveBlocks, block)
        activeTries == Trie_Insert(sm.ActiveTrie, block.Hash, block.Data)
    IN IF Len(active) > sm.MaxActiveCount
       THEN LET archived == active[1]
            IN {[sm EXCEPT !.PrunedBlocks = Append(@, ArchivedBlock(archived)),
                           !.ActiveBlocks = SubSeq(active, 2, Len(active)),
                           !.ActiveTrie = a,
                           !.ArchiveTrie = r] :
                   a \in activeTries,
                   r \in Trie_Insert(sm.ArchiveTrie, archived.Hash, archived.Data)}
       ELSE {[sm EXCEPT !.ActiveBlocks = active, !.ActiveTrie = a] : a \in activeTries}

\* UpdateArchiveRoot: the managers it may leave.
UpdateArchiveRoot(sm) == {[sm EXCEPT !.ArchiveTrie = r] : r \in updateHashes(sm.ArchiveTrie)}

GetActiveRoot(sm) == GetMerkleRoot(sm.ActiveTrie)

GetArchiveRoot(sm) == GetMerkleRoot(sm.ArchiveTrie)

(***************************************************************************)
(* Goroutines that call the vector clocks.  A call is at the statement it  *)
(* runs next.  A sync.RWMutex is its writer (0 for none) and the set of    *)
(* its readers: Lock waits for no writer and no reader, RLock for no       *)
(* writer.                                                                 *)
(***************************************************************************)
\* goroutines that call the clocks
NumVcThreads == 2

VcThreads == 1..NumVcThreads

IdleCall ==
    [at |-> "idle", op |-> "none", x |-> "a", y |-> "a", nodeID |-> "node1", ret |-> <<>>]

NoClockLocks == [c \in {"a", "b", "c"} |-> [w |-> 0, r |-> {}]]

(***************************************************************************)
(* The state of the components.                                            *)
(*   bc    a Blockchain (Blocks)                                           *)
(*   sp    a StatePruner (policy, integrityProofs, merkleRoot, secretKey)  *)
(*   acc   an RSAAccumulator (N, G, State, Elements, Proofs)               *)
(*   trie  a SuccinctTrie                                                  *)
(*   vc    the vector clocks, by name                                      *)
(*   cap   the metrics last handed to AdjustCapacity and its result        *)
(*   heap  the Shard objects, where shards are shared between threads by   *)
(*         pointer                                                         *)
(*   co    a ConsistencyOrchestrator                                       *)
(*   stm   a StateManager                                                  *)
(*   acm   an AdaptiveCapacityManager                                      *)
(*   vcThr the goroutines that call the vector clocks, vcMu the clocks'    *)
(*         RWMutexes                                                       *)
(***************************************************************************)
VARIABLES bc, sp, acc, trie, vc, cap, heap, co, stm, acm, vcThr, vcMu

compVars == <<bc, sp, acc, trie, vc, cap, heap, co, stm, acm, vcThr, vcMu>>

\* main's pruning policy (cmd/main.go, line 233).
MainMaxHeight == 5
MainRetention == 10

\* main's state manager keeps two blocks active (cmd/main.go, line 120).
MainMaxActive == 2

CompInit ==
    /\ bc = NewBlockchain
    /\ sp = NewStatePruner(MainMaxHeight, MainRetention, TRUE)
    /\ acc = NewRSAAccumulator
    /\ trie = NewSuccinctTrie
    /\ vc = [c \in {"a", "b", "c"} |-> NewVectorClock]
    /\ cap = [latency |-> 0, errorRate |-> 0, capacity |-> 0]
    /\ co = NewOrchestrator
    /\ stm = NewStateManager(MainMaxActive)
    /\ acm = NewAdaptiveCapacityManager
    /\ vcThr = [th \in VcThreads |-> IdleCall]
    /\ vcMu = NoClockLocks
    /\ heap = <<>>


Threads == 1..NumThreads

IdleThread ==
    [at |-> "idle", mgr |-> 0, src |-> 0, dst |-> 0, idx |-> 0,
     commitment |-> EmptyStr, block |-> <<>>, created |-> "none", ret |-> "none"]

NoLocks ==
    [esm |-> [m \in {1, 2} |-> 0], sync |-> [m \in {1, 2} |-> 0],
     shard |-> [i \in 1..ConcShards |-> 0]]

\* The two managers main builds (cmd/main.go, lines 58 and 72).
Managers == {1, 2}

ManagerKey(m) == IF m = 1 THEN Str("secret-key-123") ELSE Str("wrong-key")

NoCall(op) ==
    [op |-> op, mgr |-> 0, src |-> 0, dst |-> 0, idx |-> 0, ret |-> FALSE,
     found |-> FALSE, afterCreate |-> FALSE, prior |-> FALSE, preS |-> <<>>, preD |-> <<>>,
     snapS |-> <<>>, snapD |-> <<>>]

Shards == GetAllShards(tree)

NumPending == LET RECURSIVE count(_)
                  count(ms) == IF ms = {} THEN 0
                               ELSE LET m == CHOOSE x \in ms : TRUE
                                    IN Cardinality(DOMAIN pending[m]) + count(ms \ {m})
              IN count(Managers)

LedgerInit ==
    /\ tree = NewShardManager
    /\ pending = [m \in Managers |-> EmptyMap]
    /\ distributed = <<>>
    /\ last = NoCall("init")
    /\ halted = FALSE
    /\ calls = 0
    /\ pc = "distribute"
    /\ thr = [th \in Threads |-> IdleThread]
    /\ locks = NoLocks

\* The next block of the chain main distributes: the genesis block first.
NextBlock(data) ==
    IF distributed = <<>> THEN GenesisBlock
    ELSE GenerateBlock(distributed[Len(distributed)], data)

DoDistributeBlock(payloads, maxBlocks) ==
    /\ ~halted
    /\ Len(distributed) < maxBlocks
    /\ \E data \in payloads :
          /\ tree' = DistributeBlock(tree, NextBlock(data))
          /\ distributed' = Append(distributed, NextBlock(data))
    /\ last' = NoCall("DistributeBlock")
    /\ UNCHANGED <<pending, halted, calls>>

DoRebalanceShards(maxShards) ==
    /\ ~halted
    /\ Len(Shards) < maxShards
    /\ tree' = RebalanceShards(tree)
    /\ last' = NoCall("RebalanceShards")
    /\ UNCHANGED <<pending, distributed, halted, calls>>

DoMergeShards ==
    /\ ~halted
    /\ \E threshold \in 1..MaxThreshold : tree' = MergeShards(tree, threshold)
    /\ last' = NoCall("MergeShards")
    /\ UNCHANGED <<pending, distributed, halted, calls>>

DoCreateAuthenticatedTransfer(mgrs, maxCalls) ==
    /\ ~halted
    /\ calls < maxCalls
    /\ calls' = calls + 1
    /\ \E m \in mgrs, src \in 1..Len(Shards), dst \in 1..Len(Shards) :
       \E blockIndex \in -1..Len(Shards[src].Blocks) :
          LET r == CreateAuthenticatedTransfer(ManagerKey(m), pending[m], tree,
                                               src, dst, blockIndex)
          IN /\ \/ NumPending < MaxPending
                \/ TransferID(Shards[src], Shards[dst], blockIndex) \in DOMAIN pending[m]
             /\ pending' = [pending EXCEPT ![m] = r.pendingTransfers]
             /\ halted' = r.hang
             /\ last' = [NoCall("CreateAuthenticatedTransfer") EXCEPT
                            !.mgr = m, !.src = src, !.dst = dst, !.idx = blockIndex,
                            !.ret = r.ret,
                            !.preS = Shards[src].Blocks, !.preD = Shards[dst].Blocks]
    /\ UNCHANGED <<tree, distributed>>

\* The block indexes a caller may hand to the commit: one below, every index
\* of the source, one past its end, and the indexes it prepared.
CommitIndexes(m, src, dst) ==
    (-1..Len(Shards[src].Blocks))
    \cup {id[3] : id \in {x \in DOMAIN pending[m] :
                              x[1] = Shards[src].ID /\ x[2] = Shards[dst].ID}}

DoVerifyAndApplyTransfer(mgrs, maxCalls) ==
    /\ ~halted
    /\ calls < maxCalls
    /\ calls' = calls + 1
    /\ \E m \in mgrs, src \in 1..Len(Shards), dst \in 1..Len(Shards) :
       \E blockIndex \in CommitIndexes(m, src, dst) :
          LET r == VerifyAndApplyTransfer(ManagerKey(m), pending[m], tree,
                                          src, dst, blockIndex)
              id == TransferID(Shards[src], Shards[dst], blockIndex)
          IN /\ tree' = r.tree
             /\ pending' = [pending EXCEPT ![m] = r.pendingTransfers]
             /\ last' = [NoCall("VerifyAndApplyTransfer") EXCEPT
                            !.mgr = m, !.src = src, !.dst = dst, !.idx = blockIndex,
                            !.ret = r.ret, !.found = r.found,
                            !.afterCreate =
                                /\ last.op = "CreateAuthenticatedTransfer"
                                /\ last.ret
                                /\ <<last.mgr, last.src, last.dst, last.idx>>
                                   = <<m, src, dst, blockIndex>>,
                            !.preS = Shards[src].Blocks, !.preD = Shards[dst].Blocks,
                            !.snapS = IF r.found THEN pending[m][id].SourceSnapshot
                                      ELSE <<>>,
                            !.snapD = IF r.found THEN pending[m][id].DestSnapshot
                                      ELSE <<>>]
    /\ UNCHANGED <<distributed, halted>>

(***************************************************************************)
(* main (cmd/main.go, lines 32-77): distribute the chain, then one         *)
(* transfer by the manager with the right key and one by the manager with  *)
(* the wrong key, both from shards[0] to shards[1] at index 0.  The chain  *)
(* has the genesis block and eight more; their payloads are drawn from     *)
(* Payloads.                                                               *)
(***************************************************************************)
MainBlocks == 9

\* One call of main's transfer section by manager m: the prepare, or the commit.
MainCall(m, op) ==
    LET r == IF op = "CreateAuthenticatedTransfer"
             THEN CreateAuthenticatedTransfer(ManagerKey(m), pending[m], tree, 1, 2, 0)
             ELSE VerifyAndApplyTransfer(ManagerKey(m), pending[m], tree, 1, 2, 0)
    IN /\ pending' = [pending EXCEPT ![m] = r.pendingTransfers]
       /\ tree' = IF op = "CreateAuthenticatedTransfer" THEN tree ELSE r.tree
       /\ last' = [NoCall(op) EXCEPT !.mgr = m, !.src = 1, !.dst = 2, !.idx = 0,
                      !.ret = r.ret,
                      !.found = IF op = "CreateAuthenticatedTransfer" THEN FALSE
                                ELSE r.found,
                      !.afterCreate = op = "VerifyAndApplyTransfer",
                      !.prior = IF last.op = "VerifyAndApplyTransfer" THEN last.ret
                                ELSE last.prior,
                      !.preS = Shards[1].Blocks, !.preD = Shards[2].Blocks]
       /\ calls' = calls + 1
       /\ UNCHANGED <<distributed, halted, threadVars, compVars>>

MainDistribute ==
    /\ pc = "distribute"
    /\ Len(distributed) < MainBlocks
    /\ DoDistributeBlock(Payloads, MainBlocks)
    /\ pc' = "distribute"
    /\ UNCHANGED <<threadVars, compVars>>

MainDistributed ==
    /\ pc = "distribute"
    /\ Len(distributed) = MainBlocks
    /\ pc' = IF Len(Shards) >= 2 THEN "create1" ELSE "merge"
    /\ UNCHANGED <<tree, pending, distributed, last, halted, calls, threadVars, compVars>>

MainCreate1 ==
    /\ pc = "create1"
    /\ MainCall(1, "CreateAuthenticatedTransfer")
    /\ pc' = IF last'.ret THEN "verify1" ELSE "create2"

MainVerify1 ==
    /\ pc = "verify1"
    /\ MainCall(1, "VerifyAndApplyTransfer")
    /\ pc' = "create2"

MainCreate2 ==
    /\ pc = "create2"
    /\ MainCall(2, "CreateAuthenticatedTransfer")
    /\ pc' = IF last'.ret THEN "verify2" ELSE "merge"

MainVerify2 ==
    /\ pc = "verify2"
    /\ MainCall(2, "VerifyAndApplyTransfer")
    /\ pc' = "merge"

MainMerge ==
    /\ pc = "merge"
    /\ tree' = MergeShards(tree, MinBlocksPerShard)
    /\ last' = NoCall("MergeShards")
    /\ pc' = "done"
    /\ UNCHANGED <<pending, distributed, halted, calls, threadVars, compVars>>

(***************************************************************************)
(* The index alone: any sequence of RBTree.Insert calls on an empty tree.  *)
(***************************************************************************)
DoInsert ==
    /\ Len(tree.nodes) < MaxInserts
    /\ \E id \in 0..MaxKey : tree' = RBTree_Insert(tree, NewShard(id))
    /\ UNCHANGED <<pending, distributed, last, halted, calls, pc, threadVars, compVars>>

(***************************************************************************)
(* Transfers run by several threads.  Every thread runs one transfer as    *)
(* main does: CreateAuthenticatedTransfer and, if that returned true,      *)
(* VerifyAndApplyTransfer with the same arguments.  A step is one          *)
(* statement (or one run of statements that touch nothing shared) of       *)
(* homomorphic_auth.go, SyncManager.SyncBlock or Shard.AddBlock, taken     *)
(* atomically; Lock() is a step that waits until the mutex is free.  An    *)
(* index out of range panics and ends the program (halted).  The index     *)
(* holds ConcShards shards of two blocks each and does not change shape,   *)
(* so a shard object is named by its place in GetAllShards.                *)
(***************************************************************************)
RECURSIVE ConcChain(_)
ConcChain(n) ==
    IF n = 1 THEN <<GenesisBlock>>
    ELSE LET chain == ConcChain(n - 1)
         IN Append(chain, GenerateBlock(chain[n - 1], Str("p")))

RECURSIVE distributeAll(_, _, _)
distributeAll(t, blocks, i) ==
    IF i > Len(blocks) THEN t
    ELSE distributeAll(DistributeBlock(t, blocks[i]), blocks, i + 1)

ConcTree == distributeAll(NewShardManager, ConcChain(2 * ConcShards), 1)

ThreadInits ==
    {[IdleThread EXCEPT !.at = "c_lock", !.mgr = m, !.src = s, !.dst = d, !.idx = i] :
        m \in Managers, s \in 1..ConcShards, d \in 1..ConcShards, i \in 0..MaxIdx}

ConcInit ==
    /\ tree = ConcTree
    /\ pending = [m \in Managers |-> EmptyMap]
    /\ distributed = ConcChain(2 * ConcShards)
    /\ last = NoCall("init")
    /\ halted = FALSE
    /\ calls = 0
    /\ pc = "threads"
    /\ thr \in [Threads -> ThreadInits]
    /\ locks = NoLocks
    /\ CompInit

Source(th) == ShardAt(tree, thr[th].src)

Destination(th) == ShardAt(tree, thr[th].dst)

ThreadTransferID(th) == TransferID(Source(th), Destination(th), thr[th].idx)

IndexInRange(th) == thr[th].idx >= 0 /\ thr[th].idx < Len(Source(th).Blocks)

At(th, at) == ~halted /\ thr[th].at = at

Goto(th, at) == thr' = [thr EXCEPT ![th].at = at]

ConcFrame == UNCHANGED <<distributed, last, calls, pc, compVars>>

\* The call returns ret ("true" or "false"), unlocking esm.mutex (the
\* deferred Unlock).
Return(th, ret) ==
    /\ locks' = [locks EXCEPT !.esm[thr[th].mgr] = 0]
    /\ thr' = IF thr[th].at \in {"c_check", "p_verify"}
              THEN [thr EXCEPT ![th].at = "done", ![th].created = ret]
              ELSE [thr EXCEPT ![th].at = "done", ![th].ret = ret]

\* CreateAuthenticatedTransfer, line 90
CreateLock(th) ==
    /\ At(th, "c_lock")
    /\ locks.esm[thr[th].mgr] = 0
    /\ locks' = [locks EXCEPT !.esm[thr[th].mgr] = th]
    /\ Goto(th, "c_check")
    /\ UNCHANGED <<tree, pending, halted>> /\ ConcFrame

\* An index check that has left an entry in the table when it refuses.
checkIndexAfterStore(th) ==
    /\ At(th, "c_check")
    /\ IF IndexInRange(th)
       THEN Goto(th, "c_commit") /\ UNCHANGED <<locks, pending>>
       ELSE /\ pending' = [pending EXCEPT ![thr[th].mgr] =
                              MapPut(@, ThreadTransferID(th),
                                     [SourceShard |-> Source(th).ID,
                                      DestShard |-> Destination(th).ID,
                                      BlockIndex |-> thr[th].idx,
                                      Commitment |-> EmptyStr,
                                      Prepared |-> FALSE,
                                      SourceSnapshot |-> Source(th).Blocks,
                                      DestSnapshot |-> Destination(th).Blocks])]
            /\ Return(th, "false")
    /\ UNCHANGED <<tree, halted>> /\ ConcFrame

\* lines 94-97
CreateCheckIndex(th) ==
    /\ At(th, "c_check")
    /\ IF IndexInRange(th)
       THEN Goto(th, "c_commit") /\ UNCHANGED locks
       ELSE Return(th, "false")
    /\ UNCHANGED <<tree, pending, halted>> /\ ConcFrame

\* lines 100-102
CreateCommitment(th) ==
    /\ At(th, "c_commit")
    /\ IF IndexInRange(th)
       THEN /\ thr' = [thr EXCEPT ![th].at = "c_store",
                          ![th].commitment =
                              AuthenticateData(ManagerKey(thr[th].mgr),
                                  partialStateOf(Source(th).Blocks[thr[th].idx + 1]))]
            /\ UNCHANGED halted
       ELSE halted' = TRUE /\ UNCHANGED thr
    /\ UNCHANGED <<tree, pending, locks>> /\ ConcFrame

\* lines 105-117
CreateStore(th) ==
    /\ At(th, "c_store")
    /\ pending' = [pending EXCEPT ![thr[th].mgr] =
                      MapPut(@, ThreadTransferID(th),
                             [SourceShard |-> Source(th).ID,
                              DestShard |-> Destination(th).ID,
                              BlockIndex |-> thr[th].idx,
                              Commitment |-> thr[th].commitment,
                              Prepared |-> FALSE,
                              SourceSnapshot |-> Source(th).Blocks,
                              DestSnapshot |-> Destination(th).Blocks])]
    /\ Goto(th, "p_verify")
    /\ UNCHANGED <<tree, halted, locks>> /\ ConcFrame

\* prepareTransfer, lines 131-135, and lines 120-123 of its caller
PrepareVerify(th) ==
    /\ At(th, "p_verify")
    /\ IF ~IndexInRange(th)
       THEN halted' = TRUE /\ UNCHANGED <<thr, locks, pending>>
       ELSE IF VerifyAuthentication(ManagerKey(thr[th].mgr),
                   partialStateOf(Source(th).Blocks[thr[th].idx + 1]),
                   thr[th].commitment)
       THEN Goto(th, "p_lock_source") /\ UNCHANGED <<halted, locks, pending>>
       ELSE /\ pending' = [pending EXCEPT ![thr[th].mgr] =
                              MapDelete(@, ThreadTransferID(th))]
            /\ Return(th, "false")
            /\ UNCHANGED halted
    /\ UNCHANGED tree /\ ConcFrame

\* line 138
PrepareLockSource(th) ==
    /\ At(th, "p_lock_source")
    /\ locks.shard[thr[th].src] = 0
    /\ locks' = [locks EXCEPT !.shard[thr[th].src] = th]
    /\ Goto(th, "p_lock_dest")
    /\ UNCHANGED <<tree, pending, halted>> /\ ConcFrame

\* line 140
PrepareLockDest(th) ==
    /\ At(th, "p_lock_dest")
    /\ locks.shard[thr[th].dst] = 0
    /\ locks' = [locks EXCEPT !.shard[thr[th].dst] = th]
    /\ Goto(th, "p_mark")
    /\ UNCHANGED <<tree, pending, halted>> /\ ConcFrame

\* A prepare that returns with the two shard locks still held.
prepareMarkKeepingLocks(th) ==
    /\ At(th, "p_mark")
    /\ pending' = [pending EXCEPT ![thr[th].mgr][ThreadTransferID(th)].Prepared = TRUE]
    /\ locks' = [locks EXCEPT !.esm[thr[th].mgr] = 0]
    /\ thr' = [thr EXCEPT ![th].at = "v_lock", ![th].created = "true"]
    /\ UNCHANGED <<tree, halted>> /\ ConcFrame

\* lines 144-145 with the two deferred Unlocks, then line 125 with its own
PrepareMark(th) ==
    /\ At(th, "p_mark")
    /\ pending' = [pending EXCEPT ![thr[th].mgr][ThreadTransferID(th)].Prepared = TRUE]
    /\ locks' = [locks EXCEPT !.shard[thr[th].dst] = 0, !.shard[thr[th].src] = 0,
                              !.esm[thr[th].mgr] = 0]
    /\ thr' = [thr EXCEPT ![th].at = "v_lock", ![th].created = "true"]
    /\ UNCHANGED <<tree, halted>> /\ ConcFrame

\* VerifyAndApplyTransfer, line 150
VerifyLock(th) ==
    /\ At(th, "v_lock")
    /\ locks.esm[thr[th].mgr] = 0
    /\ locks' = [locks EXCEPT !.esm[thr[th].mgr] = th]
    /\ Goto(th, "v_lookup")
    /\ UNCHANGED <<tree, pending, halted>> /\ ConcFrame

\* lines 153-158
VerifyLookup(th) ==
    /\ At(th, "v_lookup")
    /\ IF /\ ThreadTransferID(th) \in DOMAIN pending[thr[th].mgr]
          /\ pending[thr[th].mgr][ThreadTransferID(th)].Prepared
       THEN Goto(th, "v_check") /\ UNCHANGED locks
       ELSE Return(th, "false")
    /\ UNCHANGED <<tree, pending, halted>> /\ ConcFrame

\* lines 161-164
VerifyCheckIndex(th) ==
    /\ At(th, "v_check")
    /\ IF IndexInRange(th)
       THEN Goto(th, "v_auth") /\ UNCHANGED locks
       ELSE Return(th, "false")
    /\ UNCHANGED <<tree, pending, halted>> /\ ConcFrame

\* lines 167-169
VerifyCommitment(th) ==
    /\ At(th, "v_auth")
    /\ IF ~IndexInRange(th)
       THEN halted' = TRUE /\ UNCHANGED thr
       ELSE /\ Goto(th, IF VerifyAuthentication(ManagerKey(thr[th].mgr),
                               partialStateOf(Source(th).Blocks[thr[th].idx + 1]),
                               pending[thr[th].mgr][ThreadTransferID(th)].Commitment)
                        THEN "s_lock" ELSE "rb_source")
            /\ UNCHANGED halted
    /\ UNCHANGED <<tree, pending, locks>> /\ ConcFrame

\* SyncBlock, line 19
SyncLock(th) ==
    /\ At(th, "s_lock")
    /\ locks.sync[thr[th].mgr] = 0
    /\ locks' = [locks EXCEPT !.sync[thr[th].mgr] = th]
    /\ Goto(th, "s_check")
    /\ UNCHANGED <<tree, pending, halted>> /\ ConcFrame

\* lines 22-24
SyncCheckIndex(th) ==
    /\ At(th, "s_check")
    /\ IF IndexInRange(th)
       THEN Goto(th, "s_read") /\ UNCHANGED locks
       ELSE /\ Goto(th, "rb_source")
            /\ locks' = [locks EXCEPT !.sync[thr[th].mgr] = 0]
    /\ UNCHANGED <<tree, pending, halted>> /\ ConcFrame

\* line 27
SyncReadBlock(th) ==
    /\ At(th, "s_read")
    /\ IF IndexInRange(th)
       THEN /\ thr' = [thr EXCEPT ![th].at = "a_lock",
                          ![th].block = <<Source(th).Blocks[thr[th].idx + 1]>>]
            /\ UNCHANGED halted
       ELSE halted' = TRUE /\ UNCHANGED thr
    /\ UNCHANGED <<tree, pending, locks>> /\ ConcFrame

\* Shard.AddBlock on the destination, line 32
AddBlockLock(th) ==
    /\ At(th, "a_lock")
    /\ locks.shard[thr[th].dst] = 0
    /\ locks' = [locks EXCEPT !.shard[thr[th].dst] = th]
    /\ Goto(th, "a_append")
    /\ UNCHANGED <<tree, pending, halted>> /\ ConcFrame

\* line 35
AddBlockAppend(th) ==
    /\ At(th, "a_append")
    /\ tree' = SetShardAt(tree, thr[th].dst,
                   [Destination(th) EXCEPT !.Blocks = Append(@, thr[th].block[1])])
    /\ Goto(th, "a_tree")
    /\ UNCHANGED <<pending, halted, locks>> /\ ConcFrame

\* lines 37-41 and the deferred Unlock
AddBlockTree(th) ==
    /\ At(th, "a_tree")
    /\ tree' = SetShardAt(tree, thr[th].dst,
                   [Destination(th) EXCEPT
                       !.Tree = <<NewMerkleTree(getDataStrings(Destination(th).Blocks))>>])
    /\ locks' = [locks EXCEPT !.shard[thr[th].dst] = 0]
    /\ Goto(th, "s_remove")
    /\ UNCHANGED <<pending, halted>> /\ ConcFrame

\* SyncBlock, line 31
SyncRemove(th) ==
    /\ At(th, "s_remove")
    /\ IF IndexInRange(th)
       THEN /\ tree' = SetShardAt(tree, thr[th].src,
                          [Source(th) EXCEPT !.Blocks = RemoveAt(@, thr[th].idx)])
            /\ Goto(th, "s_trees")
            /\ UNCHANGED halted
       ELSE halted' = TRUE /\ UNCHANGED <<tree, thr>>
    /\ UNCHANGED <<pending, locks>> /\ ConcFrame

\* lines 34-44 with the deferred Unlock, then lines 172-174 of the caller
SyncTrees(th) ==
    /\ At(th, "s_trees")
    /\ tree' = RebuildTrees(tree, thr[th].src, thr[th].dst)
    /\ pending' = [pending EXCEPT ![thr[th].mgr] = MapDelete(@, ThreadTransferID(th))]
    /\ locks' = [locks EXCEPT !.sync[thr[th].mgr] = 0, !.esm[thr[th].mgr] = 0]
    /\ thr' = [thr EXCEPT ![th].at = "done", ![th].ret = "true"]
    /\ UNCHANGED halted /\ ConcFrame

\* the rollback: lines 179 and 181
RollbackSource(th) ==
    /\ At(th, "rb_source")
    /\ tree' = SetShardAt(tree, thr[th].src,
                   [Source(th) EXCEPT !.Blocks =
                       pending[thr[th].mgr][ThreadTransferID(th)].SourceSnapshot])
    /\ Goto(th, "rb_dest")
    /\ UNCHANGED <<pending, halted, locks>> /\ ConcFrame

\* lines 180 and 182
RollbackDest(th) ==
    /\ At(th, "rb_dest")
    /\ tree' = SetShardAt(tree, thr[th].dst,
                   [Destination(th) EXCEPT !.Blocks =
                       pending[thr[th].mgr][ThreadTransferID(th)].DestSnapshot])
    /\ Goto(th, "rb_trees")
    /\ UNCHANGED <<pending, halted, locks>> /\ ConcFrame

\* lines 185-197
RollbackTrees(th) ==
    /\ At(th, "rb_trees")
    /\ tree' = RebuildTrees(tree, thr[th].src, thr[th].dst)
    /\ pending' = [pending EXCEPT ![thr[th].mgr] = MapDelete(@, ThreadTransferID(th))]
    /\ Return(th, "false")
    /\ UNCHANGED halted /\ ConcFrame

(***************************************************************************)
(* Specifications.                                                         *)
(***************************************************************************)
vars == <<ledgerVars, threadVars, compVars>>

Init == LedgerInit /\ CompInit

\* The ledger: every single-threaded order of the shard manager's and the
\* transfer managers' operations.
Next ==
    \/ DoDistributeBlock({Str("p")}, MaxBlocks) /\ UNCHANGED <<pc, threadVars, compVars>>
    \/ DoRebalanceShards(MaxShards) /\ UNCHANGED <<pc, threadVars, compVars>>
    \/ DoMergeShards /\ UNCHANGED <<pc, threadVars, compVars>>
    \/ DoCreateAuthenticatedTransfer(Managers, MaxCalls) /\ UNCHANGED <<pc, threadVars, compVars>>
    \/ DoVerifyAndApplyTransfer(Managers, MaxCalls) /\ UNCHANGED <<pc, threadVars, compVars>>

Spec == Init /\ [][Next]_vars

\* The ledger run longer, without direct calls of RebalanceShards.
NextDeep ==
    \/ DoDistributeBlock({Str("p")}, DeepBlocks) /\ UNCHANGED <<pc, threadVars, compVars>>
    \/ DoMergeShards /\ UNCHANGED <<pc, threadVars, compVars>>
    \/ DoCreateAuthenticatedTransfer(Managers, DeepCalls) /\ UNCHANGED <<pc, threadVars, compVars>>
    \/ DoVerifyAndApplyTransfer(Managers, DeepCalls) /\ UNCHANGED <<pc, threadVars, compVars>>

SpecDeep == Init /\ [][NextDeep]_vars

\* The shard manager alone: distribute, rebalance and merge in any order.
NextManager ==
    \/ DoDistributeBlock(Payloads, MaxMgrBlocks) /\ UNCHANGED <<pc, threadVars, compVars>>
    \/ DoRebalanceShards(MaxMgrBlocks) /\ UNCHANGED <<pc, threadVars, compVars>>
    \/ DoMergeShards /\ UNCHANGED <<pc, threadVars, compVars>>

SpecManager == Init /\ [][NextManager]_vars

\* A fresh shard manager that only distributes.
NextDist == DoDistributeBlock(Payloads, MaxDistOnly) /\ UNCHANGED <<pc, threadVars, compVars>>

SpecDist == Init /\ [][NextDist]_vars

\* main.
NextMain ==
    \/ MainDistribute
    \/ MainDistributed
    \/ MainCreate1
    \/ MainVerify1
    \/ MainCreate2
    \/ MainVerify2
    \/ MainMerge

SpecMain == Init /\ [][NextMain]_vars

\* Transfers run by several threads.
NextConc ==
    \E th \in Threads :
        \/ CreateLock(th)
        \/ CreateCheckIndex(th)
        \/ CreateCommitment(th)
        \/ CreateStore(th)
        \/ PrepareVerify(th)
        \/ PrepareLockSource(th)
        \/ PrepareLockDest(th)
        \/ PrepareMark(th)
        \/ VerifyLock(th)
        \/ VerifyLookup(th)
        \/ VerifyCheckIndex(th)
        \/ VerifyCommitment(th)
        \/ SyncLock(th)
        \/ SyncCheckIndex(th)
        \/ SyncReadBlock(th)
        \/ AddBlockLock(th)
        \/ AddBlockAppend(th)
        \/ AddBlockTree(th)
        \/ SyncRemove(th)
        \/ SyncTrees(th)
        \/ RollbackSource(th)
        \/ RollbackDest(th)
        \/ RollbackTrees(th)

SpecConc == ConcInit /\ [][NextConc]_vars

\* The index alone.
InitRB ==
    /\ tree = NewRBTree
    /\ pending = [m \in Managers |-> EmptyMap]
    /\ distributed = <<>>
    /\ last = NoCall("init")
    /\ halted = FALSE
    /\ calls = 0
    /\ pc = "distribute"
    /\ thr = [th \in Threads |-> IdleThread]
    /\ locks = NoLocks
    /\ CompInit

SpecRB == InitRB /\ [][DoInsert]_vars

(***************************************************************************)
(* Properties of the index.                                                *)
(***************************************************************************)
RootBlack == ColorOf(tree, tree.Root) = Black

NoRedRed ==
    \A n \in 1..Len(tree.nodes) :
        tree.nodes[n].Color = Red
        => /\ ColorOf(tree, tree.nodes[n].Left) # Red
           /\ ColorOf(tree, tree.nodes[n].Right) # Red

\* The number of black nodes on every path from node down to the sentinel,
\* the sentinel included; -1 when two paths disagree.
RECURSIVE BlackHeight(_, _)
BlackHeight(t, node) ==
    IF node = Nil THEN 1
    ELSE LET l == BlackHeight(t, t.nodes[node].Left)
             r == BlackHeight(t, t.nodes[node].Right)
         IN IF l = -1 \/ r = -1 \/ l # r THEN -1
            ELSE l + (IF t.nodes[node].Color = Black THEN 1 ELSE 0)

SeqToBag(seq) ==
    LET vals == {seq[i] : i \in 1..Len(seq)}
    IN [v \in vals |-> Cardinality({i \in 1..Len(seq) : seq[i] = v})]

\* Every node Insert allocated is enumerated once, in non-decreasing ID order.
EnumeratesAllInOrder ==
    /\ SeqToBag(inOrderTraversal(tree, tree.Root))
           = SeqToBag([n \in 1..Len(tree.nodes) |-> n])
    /\ \A i \in 1..(Len(Shards) - 1) : Shards[i].ID <= Shards[i + 1].ID

\* C8: after any sequence of RBTree.Insert calls the root is black, no red
\* node has a red child, every path from the root to the sentinel has the
\* same number of black nodes, no nil pointer was dereferenced, and
\* GetAllShards returns every inserted shard, in non-decreasing ID order.
C8_RedBlackIndex ==
    /\ ~tree.panic
    /\ RootBlack
    /\ NoRedRed
    /\ BlackHeight(tree, tree.Root) # -1
    /\ EnumeratesAllInOrder

\* C8 witness: a full index with shards of equal ID, in which a node that was
\* not inserted first has become the root (a rotation happened).
C8_Witness ==
    /\ Len(tree.nodes) = MaxInserts
    /\ tree.Root # 1
    /\ \E i \in 1..(Len(Shards) - 1) : Shards[i].ID = Shards[i + 1].ID
    /\ \E n \in 1..Len(tree.nodes) : tree.nodes[n].Color = Red

(***************************************************************************)
(* Properties of the shard manager.                                        *)
(***************************************************************************)
RECURSIVE AllBlocks(_, _)
AllBlocks(shards, i) ==
    IF i > Len(shards) THEN <<>> ELSE shards[i].Blocks \o AllBlocks(shards, i + 1)

DistinctIDs ==
    \A i, j \in 1..Len(Shards) : i # j => Shards[i].ID # Shards[j].ID

WithinMax ==
    \A i \in 1..Len(Shards) : Len(Shards[i].Blocks) <= MaxBlocksPerShard

\* C7: on a fresh shard manager that only distributes, after n calls of
\* DistributeBlock the shards hold n blocks in all, every shard holds at
\* most 3, the shard IDs are pairwise distinct, and after 9 calls there are
\* at least 3 shards.
C7_DistributeOnly ==
    /\ Len(AllBlocks(Shards, 1)) = Len(distributed)
    /\ WithinMax
    /\ DistinctIDs
    /\ Len(distributed) = 9 => Len(Shards) >= 3

\* C7 witness: nine blocks were distributed and splits have made three shards.
C7_Witness == Len(distributed) = 9 /\ Len(Shards) >= 3

\* C5: after any sequence of DistributeBlock, RebalanceShards and MergeShards
\* the shard IDs of the index are pairwise distinct.
C5_DistinctIDs == DistinctIDs

\* C6: when RebalanceShards has just run, on its own or at the end of
\* DistributeBlock, every shard of the index holds at most 3 blocks.
C6_SizeBound == last.op \in {"DistributeBlock", "RebalanceShards"} => WithinMax

(***************************************************************************)
(* Properties of the two-phase transfer.                                   *)
(***************************************************************************)
RootOf(blocks) == NewMerkleTree(getDataStrings(blocks)).Root

\* blocks without its element at the 0-based index i, the others in order.
Without(blocks, i) ==
    [k \in 1..(Len(blocks) - 1) |-> IF k <= i THEN blocks[k] ELSE blocks[k + 1]]

\* C3: a prepare of (S, D, i) with S # D and 0 <= i < |S.Blocks| returns
\* true, and so does the commit that follows it at once on the same manager;
\* afterwards S holds its old blocks without the one at i, D holds its old
\* blocks and then the moved one, and each root is the root of the shard's
\* new payloads.
C3_SuccessfulTransfer ==
    /\ ( /\ last.op = "CreateAuthenticatedTransfer"
         /\ last.src # last.dst
         /\ 0 <= last.idx /\ last.idx < Len(last.preS) )
       => last.ret
    /\ ( /\ last.op = "VerifyAndApplyTransfer"
         /\ last.afterCreate
         /\ last.src # last.dst )
       => /\ last.ret
          /\ Shards[last.src].Blocks = Without(last.preS, last.idx)
          /\ Shards[last.dst].Blocks = Append(last.preD, last.preS[last.idx + 1])
          /\ GetRoot(Shards[last.src]) = RootOf(Shards[last.src].Blocks)
          /\ GetRoot(Shards[last.dst]) = RootOf(Shards[last.dst].Blocks)

\* C3 witness: a commit straight after its prepare moved a block that was
\* not the last of a source with several blocks.
C3_Witness ==
    /\ last.op = "VerifyAndApplyTransfer"
    /\ last.afterCreate
    /\ last.src # last.dst
    /\ last.ret
    /\ Len(last.preS) >= 2
    /\ last.idx < Len(last.preS) - 1

\* C1: a commit that found its transfer prepared and returned false leaves
\* the source and the destination with the block sequences of the snapshots
\* taken at prepare, and with the roots of those snapshots' payloads.
C1_Atomicity ==
    ( /\ last.op = "VerifyAndApplyTransfer"
      /\ last.found
      /\ ~last.ret )
    => /\ Shards[last.src].Blocks = last.snapS
       /\ Shards[last.dst].Blocks = last.snapD
       /\ GetRoot(Shards[last.src]) = RootOf(last.snapS)
       /\ GetRoot(Shards[last.dst]) = RootOf(last.snapD)

\* C4: the blocks held by the shards of the index are exactly the blocks
\* distributed, each held once.
C4_Conservation == SeqToBag(AllBlocks(Shards, 1)) = SeqToBag(distributed)

\* C2: in main, after the first manager committed its transfer, the commit
\* of the manager built with "wrong-key" returns false and leaves both
\* shards with the blocks they had before that manager's prepare.
C2_WrongKey ==
    ( /\ last.op = "VerifyAndApplyTransfer"
      /\ last.mgr = 2
      /\ last.prior )
    => /\ ~last.ret
       /\ Shards[last.src].Blocks = last.preS
       /\ Shards[last.dst].Blocks = last.preD

(***************************************************************************)
(* Properties of concurrent transfers.                                     *)
(***************************************************************************)
\* The mutex a thread is about to lock: <<kind, key>>, or <<>> elsewhere.
WantedLock(th) ==
    IF thr[th].at \in {"c_lock", "v_lock"} THEN <<"esm", thr[th].mgr>>
    ELSE IF thr[th].at = "s_lock" THEN <<"sync", thr[th].mgr>>
    ELSE IF thr[th].at = "p_lock_source" THEN <<"shard", thr[th].src>>
    ELSE IF thr[th].at \in {"p_lock_dest", "a_lock"} THEN <<"shard", thr[th].dst>>
    ELSE <<>>

\* The thread that holds the mutex th waits for; 0 if th does not wait.
WaitsFor(th) ==
    IF halted \/ WantedLock(th) = <<>> THEN 0
    ELSE locks[WantedLock(th)[1]][WantedLock(th)[2]]

\* Every thread of the set waits for a mutex held by a thread of the set:
\* none of them will ever take another step.
DeadlockedSet(D) == D # {} /\ \A th \in D : WaitsFor(th) \in D

\* C9: no interleaving of the transfers' lock-taking steps reaches a state
\* in which threads wait forever for each other's locks (or a thread for a
\* lock it holds itself).
C9_NoDeadlock == ~\E D \in SUBSET Threads : DeadlockedSet(D)

\* The state of a sequential run of the threads' calls.
SeqStart ==
    [tree |-> ConcTree, pending |-> [m \in Managers |-> EmptyMap],
     created |-> [th \in Threads |-> "none"], hung |-> FALSE]

\* The next call of thread th run alone on st: its prepare if it has not
\* run yet, else its commit if the prepare returned true.
SeqCall(st, th) ==
    IF st.hung THEN st
    ELSE IF st.created[th] = "none"
    THEN LET r == CreateAuthenticatedTransfer(ManagerKey(thr[th].mgr),
                      st.pending[thr[th].mgr], st.tree,
                      thr[th].src, thr[th].dst, thr[th].idx)
         IN [st EXCEPT !.pending[thr[th].mgr] = r.pendingTransfers,
                       !.created[th] = IF r.ret THEN "true" ELSE "false",
                       !.hung = r.hang]
    ELSE IF st.created[th] = "true"
    THEN LET r == VerifyAndApplyTransfer(ManagerKey(thr[th].mgr),
                      st.pending[thr[th].mgr], st.tree,
                      thr[th].src, thr[th].dst, thr[th].idx)
         IN [st EXCEPT !.pending[thr[th].mgr] = r.pendingTransfers, !.tree = r.tree]
    ELSE st

RECURSIVE SeqRun(_, _, _)
SeqRun(st, order, i) ==
    IF i > Len(order) THEN st ELSE SeqRun(SeqCall(st, order[i]), order, i + 1)

\* Every order of the threads' calls that keeps each thread's own order.
SeqOrders ==
    {o \in [1..(2 * NumThreads) -> Threads] :
        \A th \in Threads : Cardinality({i \in DOMAIN o : o[i] = th}) = 2}

BlocksOf(t) == [i \in 1..ConcShards |-> ShardAt(t, i).Blocks]

SeqOutcomes ==
    {BlocksOf(SeqRun(SeqStart, o, 1).tree) :
        o \in {x \in SeqOrders : ~SeqRun(SeqStart, x, 1).hung}}

AllDone == ~halted /\ \A th \in Threads : thr[th].at = "done"

\* Transfers between two distinct shards: run alone, each of them returns.
DistinctEnds == \A th \in Threads : thr[th].src # thr[th].dst

FinalIsSequential == (AllDone /\ DistinctEnds) => BlocksOf(tree) \in SeqOutcomes

\* A thread is in the middle of its move: it has read the block and has
\* not yet removed it from the source.
InMove(th) == thr[th].at \in {"a_lock", "a_append", "a_tree", "s_remove"}

NoOverlappingMoves ==
    \A th, other \in Threads :
        (th # other /\ InMove(th) /\ InMove(other))
        => {thr[th].src, thr[th].dst} \cap {thr[other].src, thr[other].dst} = {}

\* C10: when concurrent transfers between distinct shards have all returned,
\* the shards hold the block sequences some sequential order of the same
\* calls leaves; and two commits are never both in the middle of a move on
\* a common shard.
C10_Linearizable == FinalIsSequential /\ NoOverlappingMoves

(***************************************************************************)
(* Component specifications.  Every one starts from the ledger as          *)
(* constructed and leaves the ledger alone.                                *)
(***************************************************************************)
\* calls of AddElement in one run
MaxElements == 4

DoAddElement ==
    /\ Len(acc.Elements) < MaxElements
    /\ \E element \in AccElements :
          /\ acc' = AddElement(acc, element)
          /\ last' = [op |-> "AddElement", element |-> element]
    /\ UNCHANGED <<tree, pending, distributed, halted, calls, pc, threadVars>>
    /\ UNCHANGED <<bc, sp, trie, vc, cap, heap, co, stm, acm, vcThr, vcMu>>

\* The accumulator: any sequence of AddElement calls.
SpecAcc == Init /\ [][DoAddElement]_vars

\* C12: after any sequence of AddElement calls the stored witness of every
\* element of Elements verifies against the current State.
C12_AccumulatorInvariant ==
    \A i \in 1..Len(acc.Elements) :
        VerifyMembership(acc, acc.Elements[i], acc.Proofs[acc.Elements[i]])

(***************************************************************************)
(* The chain and the pruner: any sequence of Blockchain.AddBlock and       *)
(* StatePruner.PruneBlockchain, for every small pruning policy and main's, *)
(* on a fresh chain and on chains grown to the length main prunes at.      *)
(* In last, preBlocks and preProofs are bc.Blocks and sp.integrityProofs   *)
(* before the call, and panic says that the call never returned.           *)
(***************************************************************************)
\* largest MaxHeight and RetentionCount of the small policies
MaxPolicyHeight == 3
MaxPolicyRetention == 3
\* calls of Blockchain.AddBlock in one run
MaxAdds == 3
\* the AddBlock calls main makes before it prunes (cmd/main.go, line 227)
MainAdded == 20

Policies ==
    {NewStatePruner(h, r, c) :
        h \in 0..MaxPolicyHeight, r \in (0 - 1)..MaxPolicyRetention, c \in BOOLEAN}
    \cup {NewStatePruner(MainMaxHeight, MainRetention, TRUE)}

PruneInit ==
    /\ LedgerInit
    /\ bc \in {[Blocks |-> ConcChain(n)] : n \in {1, MainAdded, MainAdded + 1}}
    /\ sp \in Policies
    /\ acc = NewRSAAccumulator
    /\ trie = NewSuccinctTrie
    /\ vc = [c \in {"a", "b", "c"} |-> NewVectorClock]
    /\ cap = [latency |-> 0, errorRate |-> 0, capacity |-> 0]
    /\ co = NewOrchestrator
    /\ stm = NewStateManager(MainMaxActive)
    /\ acm = NewAdaptiveCapacityManager
    /\ vcThr = [th \in VcThreads |-> IdleCall]
    /\ vcMu = NoClockLocks
    /\ heap = <<>>

PruneFrame ==
    /\ UNCHANGED <<tree, pending, distributed, pc, threadVars>>
    /\ UNCHANGED <<acc, trie, vc, cap, heap, co, stm, acm, vcThr, vcMu>>

DoChainAddBlock ==
    /\ ~halted
    /\ calls < MaxAdds
    /\ \E data \in Payloads :
          LET result == Blockchain_AddBlock(bc, data)
          IN /\ bc' = result.bc
             /\ halted' = result.panic
             /\ last' = [op |-> "AddBlock", ret |-> 0, panic |-> result.panic,
                         preBlocks |-> bc.Blocks, preProofs |-> sp.integrityProofs]
    /\ calls' = calls + 1
    /\ UNCHANGED sp
    /\ PruneFrame

DoPruneBlockchain ==
    /\ ~halted
    /\ LET result == PruneBlockchain(sp, bc)
       IN /\ bc' = result.bc
          /\ sp' = result.sp
          /\ halted' = result.panic
          /\ last' = [op |-> "PruneBlockchain", ret |-> result.ret, panic |-> result.panic,
                      preBlocks |-> bc.Blocks, preProofs |-> sp.integrityProofs]
    /\ UNCHANGED calls
    /\ PruneFrame

NextPrune == DoChainAddBlock \/ DoPruneBlockchain

SpecPrune == PruneInit /\ [][NextPrune]_vars

Pruned == last.op = "PruneBlockchain" /\ ~last.panic

\* C13: whenever PruneBlockchain returns a count > 0, the latest proof
\* verifies right afterwards and its PrunedCount is the returned count.
C13_PruneThenVerify ==
    (Pruned /\ last.ret > 0) =>
        /\ GetLatestProof(sp) # 0
        /\ VerifyIntegrity(sp, sp.integrityProofs[GetLatestProof(sp)])
        /\ sp.integrityProofs[GetLatestProof(sp)].PrunedCount = last.ret

C13_Witness == Pruned /\ last.ret > 0 /\ Len(sp.integrityProofs) = 2

\* The drop count the policy asks for on a chain of length len: len minus
\* the retention count, and with checkpoints the largest multiple of
\* MaxHeight that does not exceed it.
DropCount(policy, len) ==
    LET d == len - policy.RetentionCount
    IN IF policy.UseCheckpoints
       THEN policy.MaxHeight * (d \div policy.MaxHeight)
       ELSE d

IsPrefix(s, t) == Len(s) <= Len(t) /\ SubSeq(t, 1, Len(s)) = s

\* C14: a prune on a chain no longer than RetentionCount, or whose rounded
\* drop count is 0, returns 0, leaves the chain alone and appends no proof;
\* no call shrinks the proof list, and it grows by exactly one per prune
\* that returns a positive count.
C14_NoOpAndAccumulation ==
    /\ (Pruned /\ (Len(last.preBlocks) <= sp.policy.RetentionCount
                   \/ DropCount(sp.policy, Len(last.preBlocks)) = 0)) =>
           /\ last.ret = 0
           /\ bc.Blocks = last.preBlocks
           /\ sp.integrityProofs = last.preProofs
    /\ last.op \in {"AddBlock", "PruneBlockchain"} =>
           /\ IsPrefix(last.preProofs, sp.integrityProofs)
           /\ Len(sp.integrityProofs) =
                 Len(last.preProofs) + (IF Pruned /\ last.ret > 0 THEN 1 ELSE 0)

C14_Witness ==
    /\ Pruned /\ last.ret = 0
    /\ Len(last.preBlocks) > sp.policy.RetentionCount
    /\ Len(sp.integrityProofs) >= 1

\* C15: on a chain longer than RetentionCount a prune returns the drop
\* count of the policy and leaves exactly the blocks after the dropped
\* prefix, at least RetentionCount of them; main's policy on 20 blocks
\* drops 10 and leaves 10.
C15_PruneResult ==
    /\ (Pruned /\ Len(last.preBlocks) > sp.policy.RetentionCount) =>
           /\ last.ret = DropCount(sp.policy, Len(last.preBlocks))
           /\ bc.Blocks = SubSeq(last.preBlocks, last.ret + 1, Len(last.preBlocks))
           /\ Len(bc.Blocks) = Len(last.preBlocks) - last.ret
           /\ Len(bc.Blocks) >= sp.policy.RetentionCount
    /\ (Pruned /\ Len(last.preBlocks) = MainAdded
               /\ sp.policy = NewStatePruner(MainMaxHeight, MainRetention, TRUE).policy) =>
           last.ret = 10 /\ Len(bc.Blocks) = 10

C15_Witness ==
    /\ Pruned /\ Len(last.preBlocks) = MainAdded
    /\ sp.policy = NewStatePruner(MainMaxHeight, MainRetention, TRUE).policy
    /\ last.ret = 10 /\ Len(bc.Blocks) = 10

\* C16: with a retention count of 0 or more the chain is never empty and
\* its first element is the genesis block.
C16_ChainShape ==
    sp.policy.RetentionCount >= 0 =>
        /\ Len(bc.Blocks) > 0
        /\ bc.Blocks[1].Index = 0
        /\ bc.Blocks[1].PrevHash = EmptyStr
        /\ bc.Blocks[1] = GenesisBlock

\* C17: every block after the first continues its predecessor (Index + 1,
\* PrevHash = the predecessor's Hash), every block's Hash is the hash of its
\* own fields, and a call changes no block that stays in the chain.
C17_ChainLinkage ==
    /\ \A i \in 2..Len(bc.Blocks) :
          /\ bc.Blocks[i].Index = bc.Blocks[i - 1].Index + 1
          /\ bc.Blocks[i].PrevHash = bc.Blocks[i - 1].Hash
    /\ \A i \in 1..Len(bc.Blocks) : bc.Blocks[i].Hash = calculateHash(bc.Blocks[i])
    /\ (last.op = "AddBlock" /\ ~last.panic) =>
          Len(bc.Blocks) = Len(last.preBlocks) + 1 /\ IsPrefix(last.preBlocks, bc.Blocks)
    /\ last.op = "PruneBlockchain" =>
          \E d \in 0..Len(last.preBlocks) :
              bc.Blocks = SubSeq(last.preBlocks, d + 1, Len(last.preBlocks))
    /\ (last.op \in {"AddBlock", "PruneBlockchain"} /\ last.panic) =>
          bc.Blocks = last.preBlocks

C17_Witness ==
    /\ last.op = "AddBlock" /\ ~last.panic
    /\ Len(sp.integrityProofs) >= 1
    /\ Len(bc.Blocks) >= 3
    /\ bc.Blocks[1].Index > 0

(***************************************************************************)
(* The trie: any sequence of SuccinctTrie.Insert calls.  last.inserted     *)
(* maps every key inserted so far to the value of its last insert.         *)
(***************************************************************************)
\* longest key inserted
MaxKeyLen == 2
\* calls of SuccinctTrie.Insert in one run
MaxTrieInserts == 3

RECURSIVE KeysOfLen(_)
KeysOfLen(n) ==
    IF n = 0 THEN {EmptyStr}
    ELSE {k \o b : k \in KeysOfLen(n - 1), b \in TrieBytes}

TrieKeys == UNION {KeysOfLen(n) : n \in 0..MaxKeyLen}

TrieValues == {EmptyStr, Str("x"), Str("y")}

TrieInit ==
    /\ tree = NewShardManager
    /\ pending = [m \in Managers |-> EmptyMap]
    /\ distributed = <<>>
    /\ last = [op |-> "init", inserted |-> EmptyMap]
    /\ halted = FALSE
    /\ calls = 0
    /\ pc = "distribute"
    /\ thr = [th \in Threads |-> IdleThread]
    /\ locks = NoLocks
    /\ CompInit

DoTrieInsert ==
    /\ calls < MaxTrieInserts
    /\ \E key \in TrieKeys, value \in TrieValues :
          /\ trie' \in Trie_Insert(trie, key, value)
          /\ last' = [op |-> "Insert", inserted |-> MapPut(last.inserted, key, value)]
    /\ calls' = calls + 1
    /\ UNCHANGED <<tree, pending, distributed, halted, pc, threadVars>>
    /\ UNCHANGED <<bc, sp, acc, vc, cap, heap, co, stm, acm, vcThr, vcMu>>

SpecTrie == TrieInit /\ [][DoTrieInsert]_vars

\* C18: Get(k) returns the value of the last insert under k and true if k
\* was inserted, and the empty string and false if it was not.
C18_TrieLookup ==
    \A k \in TrieKeys :
        Trie_Get(trie, k) = IF k \in DOMAIN last.inserted
                            THEN <<last.inserted[k], TRUE>>
                            ELSE <<EmptyStr, FALSE>>

(***************************************************************************)
(* Three vector clocks a, b and c over two nodes: any sequence of Update   *)
(* and Merge calls.  x.Merge(x) locks x.mu and then waits for a read lock  *)
(* on it for ever: the call never returns (halted).  In last, x is the     *)
(* receiver, y the argument and pre the clocks before the call.            *)
(***************************************************************************)
\* largest timestamp Update counts to
MaxTick == 2

ClockNames == {"a", "b", "c"}

NodeIDs == {"node1", "node2"}

ClockInit ==
    /\ tree = NewShardManager
    /\ pending = [m \in Managers |-> EmptyMap]
    /\ distributed = <<>>
    /\ last = [op |-> "init", x |-> "a", y |-> "a", pre |-> [c \in ClockNames |-> NewVectorClock]]
    /\ halted = FALSE
    /\ calls = 0
    /\ pc = "distribute"
    /\ thr = [th \in Threads |-> IdleThread]
    /\ locks = NoLocks
    /\ CompInit

ClockFrame ==
    /\ UNCHANGED <<tree, pending, distributed, calls, pc, threadVars>>
    /\ UNCHANGED <<bc, sp, acc, trie, cap, heap, co, stm, acm, vcThr, vcMu>>

DoUpdate ==
    /\ ~halted
    /\ \E x \in ClockNames, nodeID \in NodeIDs :
          /\ VC_Get(vc[x], nodeID) < MaxTick
          /\ vc' = [vc EXCEPT ![x] = VC_Update(vc[x], nodeID)]
          /\ last' = [op |-> "Update", x |-> x, y |-> x, pre |-> vc]
    /\ UNCHANGED halted
    /\ ClockFrame

DoMerge ==
    /\ ~halted
    /\ \E x \in ClockNames, y \in ClockNames :
          /\ vc' = IF x = y THEN vc ELSE [vc EXCEPT ![x] = VC_Merge(vc[x], vc[y])]
          /\ halted' = (x = y)
          /\ last' = [op |-> "Merge", x |-> x, y |-> y, pre |-> vc]
    /\ ClockFrame

NextClock == DoUpdate \/ DoMerge

SpecClock == ClockInit /\ [][NextClock]_vars

Max(m, n) == IF m >= n THEN m ELSE n

\* C19: after a.Merge(b) every component of a is the larger of the old
\* components of a and b, and b is unchanged; merging b twice gives what
\* merging it once gives, and merging b then c gives what merging c then b
\* gives.
C19_MergeIsMax ==
    /\ (last.op = "Merge" /\ ~halted) =>
          /\ \A n \in NodeIDs :
                VC_Get(vc[last.x], n) = Max(VC_Get(last.pre[last.x], n),
                                            VC_Get(last.pre[last.y], n))
          /\ \A z \in ClockNames \ {last.x} : vc[z] = last.pre[z]
    /\ \A x \in ClockNames : \A y \in ClockNames \ {x} :
          VC_Merge(VC_Merge(vc[x], vc[y]), vc[y]) = VC_Merge(vc[x], vc[y])
    /\ \A x \in ClockNames : \A y \in ClockNames \ {x}, z \in ClockNames \ {x} :
          VC_Merge(VC_Merge(vc[x], vc[y]), vc[z]) = VC_Merge(VC_Merge(vc[x], vc[z]), vc[y])

C19_Witness ==
    /\ last.op = "Merge" /\ ~halted
    /\ \E n \in NodeIDs : VC_Get(last.pre[last.x], n) > VC_Get(last.pre[last.y], n)
                          /\ VC_Get(last.pre[last.y], n) > 0
    /\ \E n \in NodeIDs : VC_Get(last.pre[last.y], n) > VC_Get(last.pre[last.x], n)
    /\ \E z \in ClockNames \ {last.x, last.y} :
          VC_Merge(vc[last.x], vc[z]) # vc[last.x] /\ VC_Merge(vc[z], vc[last.x]) # vc[z]

(***************************************************************************)
(* The capacity policy applied to metrics of every latency and error rate  *)
(* of a grid: latencies around 0, main's 100, 200 and 300 ms, and around   *)
(* the 20 s at which the capacity reaches 0; error rates from 0 to 1.      *)
(***************************************************************************)
\* error rates, in steps of 0.05
MaxErrSteps == 20
\* latencies in steps of half a millisecond from 0, and of 100 ms
MaxHalfMs == 4
MaxHundredMs == 4

Latencies ==
    {k * 500 : k \in 0..MaxHalfMs} \cup {k * 100000 : k \in 0..MaxHundredMs}
    \cup {19999000, 19999500, 20000000, 20000500, 21000000}

ErrorRates == {r \in {k * 50 : k \in 0..MaxErrSteps} : r <= FxOne}

DoAdjustCapacity ==
    /\ \E latency \in Latencies, errorRate \in ErrorRates :
          cap' = [latency |-> latency, errorRate |-> errorRate,
                  capacity |-> AdjustCapacity(NewDefaultAdaptivePolicy,
                                              [Latency |-> latency, ErrorRate |-> errorRate])]
    /\ last' = [op |-> "AdjustCapacity"]
    /\ UNCHANGED <<tree, pending, distributed, halted, calls, pc, threadVars>>
    /\ UNCHANGED <<bc, sp, acc, trie, vc, heap, co, stm, acm, vcThr, vcMu>>

SpecCap == Init /\ [][DoAdjustCapacity]_vars

Clamp(x, lo, hi) == IF x < lo THEN lo ELSE IF x > hi THEN hi ELSE x

CapacityOf(latency, errorRate) ==
    AdjustCapacity(NewDefaultAdaptivePolicy, [Latency |-> latency, ErrorRate |-> errorRate])

\* C20: the capacity is 100 - 0.5 * (latencyMs / 100) - 2.0 * errorRate * 100
\* clamped to [0, 1000] (in thousandths: 100000 - 5 * latencyMs
\* - 200 * errorRate); it does not grow with the latency nor with the error
\* rate; 300 ms and 0.10 give 78.5.
C20_CapacityPolicy ==
    last.op = "AdjustCapacity" =>
        /\ cap.capacity = Clamp(100000 - 5 * (cap.latency \div 1000) - 200 * cap.errorRate,
                                0, 1000000)
        /\ \A latency \in Latencies :
              latency >= cap.latency => CapacityOf(latency, cap.errorRate) <= cap.capacity
        /\ \A errorRate \in ErrorRates :
              errorRate >= cap.errorRate => CapacityOf(cap.latency, errorRate) <= cap.capacity
        /\ (cap.latency = 300000 /\ cap.errorRate = 100) => cap.capacity = 78500

C20_Witness ==
    /\ last.op = "AdjustCapacity"
    /\ cap.latency = 300000 /\ cap.errorRate = 100 /\ cap.capacity = 78500
    /\ CapacityOf(20000000, 0) = 0
    /\ CapacityOf(19999500, 0) > 0

(***************************************************************************)
(* DistributeBlock called by several threads on one ShardManager.  The     *)
(* manager has no lock of its own; the only lock taken is Shard.mutex, in  *)
(* Shard.AddBlock.  Shards are shared by pointer: heap holds the Shard     *)
(* objects (ID, Blocks, Tree, and mutex with its holder, 0 for nobody),    *)
(* and a node of an index holds the ID of its shard and ref, the place of  *)
(* the object in heap.  Every thread makes one call, after some blocks     *)
(* were distributed by one thread.  A step is one statement that reads or  *)
(* writes shared state together with the thread-local statements after it; *)
(* lines 82-84 read shard.Blocks in one step, and the shard a thread has   *)
(* just made (lines 92-97) is its own until it publishes its index.        *)
(***************************************************************************)
\* blocks distributed before the threads start
MaxPre == 4

\* The index and the heap of a manager that shares no shard yet.
ShareIndex(t) ==
    [t EXCEPT !.nodes = [k \in 1..Len(t.nodes) |->
                            [t.nodes[k] EXCEPT !.Shard = [ID |-> t.nodes[k].Shard.ID, ref |-> k]]]]

ShareHeap(t) ==
    [k \in 1..Len(t.nodes) |->
        [ID |-> t.nodes[k].Shard.ID, Blocks |-> t.nodes[k].Shard.Blocks,
         Tree |-> t.nodes[k].Shard.Tree, mutex |-> 0]]

DistThread(block) ==
    [at |-> "d_get", block |-> block, lastShard |-> 0, currentShards |-> <<>>,
     newTree |-> NewRBTree, shardIDCounter |-> 0, i |-> 0,
     leftBlocks |-> <<>>, rightBlocks |-> <<>>]

DistInit ==
    /\ \E n \in 0..MaxPre :
          LET chain == ConcChain(n + NumThreads)
              before == distributeAll(NewShardManager, SubSeq(chain, 1, n), 1)
          IN /\ tree = ShareIndex(before)
             /\ heap = ShareHeap(before)
             /\ distributed = chain
             /\ thr = [th \in Threads |-> DistThread(chain[n + th])]
    /\ pending = [m \in Managers |-> EmptyMap]
    /\ last = NoCall("init")
    /\ halted = FALSE
    /\ calls = 0
    /\ pc = "threads"
    /\ locks = NoLocks
    /\ bc = NewBlockchain
    /\ sp = NewStatePruner(MainMaxHeight, MainRetention, TRUE)
    /\ acc = NewRSAAccumulator
    /\ trie = NewSuccinctTrie
    /\ vc = [c \in {"a", "b", "c"} |-> NewVectorClock]
    /\ cap = [latency |-> 0, errorRate |-> 0, capacity |-> 0]
    /\ co = NewOrchestrator
    /\ stm = NewStateManager(MainMaxActive)
    /\ acm = NewAdaptiveCapacityManager
    /\ vcThr = [th \in VcThreads |-> IdleCall]
    /\ vcMu = NoClockLocks

DistFrame ==
    /\ UNCHANGED <<pending, distributed, last, halted, calls, pc, locks>>
    /\ UNCHANGED <<bc, sp, acc, trie, vc, cap, co, stm, acm, vcThr, vcMu>>

\* DistributeBlock, lines 65-66: the last shard of the index as it is now.
DistPickLast(th) ==
    /\ thr[th].at = "d_get"
    /\ thr' = [thr EXCEPT ![th].at = "a_lock",
                          ![th].lastShard = GetAllShards(tree)[Len(GetAllShards(tree))].ref]
    /\ UNCHANGED <<tree, heap>>
    /\ DistFrame

\* Shard.AddBlock, line 32.
DistAddLock(th) ==
    /\ thr[th].at = "a_lock"
    /\ heap[thr[th].lastShard].mutex = 0
    /\ heap' = [heap EXCEPT ![thr[th].lastShard].mutex = th]
    /\ thr' = [thr EXCEPT ![th].at = "a_append"]
    /\ UNCHANGED tree
    /\ DistFrame

\* Shard.AddBlock, line 35.
DistAddAppend(th) ==
    /\ thr[th].at = "a_append"
    /\ heap' = [heap EXCEPT ![thr[th].lastShard].Blocks = Append(@, thr[th].block)]
    /\ thr' = [thr EXCEPT ![th].at = "a_tree"]
    /\ UNCHANGED tree
    /\ DistFrame

\* Shard.AddBlock, lines 37-41, and the deferred Unlock.
DistAddTree(th) ==
    /\ thr[th].at = "a_tree"
    /\ heap' = [heap EXCEPT
                   ![thr[th].lastShard].Tree =
                       <<NewMerkleTree(getDataStrings(heap[thr[th].lastShard].Blocks))>>,
                   ![thr[th].lastShard].mutex = 0]
    /\ thr' = [thr EXCEPT ![th].at = "r_get"]
    /\ UNCHANGED tree
    /\ DistFrame

\* RebalanceShards, lines 75-77.
RebStart(th) ==
    /\ thr[th].at = "r_get"
    /\ thr' = [thr EXCEPT ![th].at = "r_check",
                          ![th].currentShards = GetAllShards(tree),
                          ![th].newTree = NewRBTree,
                          ![th].shardIDCounter = FirstNewShardID(GetAllShards(tree)),
                          ![th].i = 1]
    /\ UNCHANGED <<tree, heap>>
    /\ DistFrame

\* RebalanceShards, lines 79-80 and 99: the next shard, kept if it is not
\* too long.
RebCheck(th) ==
    /\ thr[th].at = "r_check"
    /\ thr' = IF thr[th].i > Len(thr[th].currentShards)
              THEN [thr EXCEPT ![th].at = "r_store"]
              ELSE IF Len(heap[thr[th].currentShards[thr[th].i].ref].Blocks) > MaxBlocksPerShard
              THEN [thr EXCEPT ![th].at = "r_slice"]
              ELSE [thr EXCEPT ![th].newTree =
                                   RBTree_Insert(@, thr[th].currentShards[thr[th].i]),
                               ![th].i = @ + 1]
    /\ UNCHANGED <<tree, heap>>
    /\ DistFrame

\* RebalanceShards, lines 82-84.
RebSlice(th) ==
    /\ thr[th].at = "r_slice"
    /\ LET blocks == heap[thr[th].currentShards[thr[th].i].ref].Blocks
       IN thr' = [thr EXCEPT ![th].at = "r_split",
                             ![th].leftBlocks = SubSeq(blocks, 1, SplitPoint(blocks)),
                             ![th].rightBlocks =
                                 SubSeq(blocks, SplitPoint(blocks) + 1, Len(blocks))]
    /\ UNCHANGED <<tree, heap>>
    /\ DistFrame

\* RebalanceShards, lines 87-97: the shard gets the left half, written
\* without its lock, and a new shard the right half.
RebSplit(th) ==
    /\ thr[th].at = "r_split"
    /\ LET shard == thr[th].currentShards[thr[th].i]
           newShard == addBlocks(NewShard(thr[th].shardIDCounter), thr[th].rightBlocks, 1)
       IN /\ heap' = Append([heap EXCEPT
                                ![shard.ref].Blocks = thr[th].leftBlocks,
                                ![shard.ref].Tree =
                                    <<NewMerkleTree(getDataStrings(thr[th].leftBlocks))>>],
                            [ID |-> newShard.ID, Blocks |-> newShard.Blocks,
                             Tree |-> newShard.Tree, mutex |-> 0])
          /\ thr' = [thr EXCEPT
                        ![th].at = "r_check",
                        ![th].newTree =
                            RBTree_Insert(RBTree_Insert(@, shard),
                                          [ID |-> newShard.ID, ref |-> Len(heap) + 1]),
                        ![th].shardIDCounter = @ + 1,
                        ![th].i = @ + 1]
    /\ UNCHANGED tree
    /\ DistFrame

\* RebalanceShards, line 103, and the return of DistributeBlock.
RebStore(th) ==
    /\ thr[th].at = "r_store"
    /\ tree' = thr[th].newTree
    /\ thr' = [thr EXCEPT ![th].at = "done"]
    /\ UNCHANGED heap
    /\ DistFrame

NextDistConc ==
    \E th \in Threads :
        \/ DistPickLast(th)
        \/ DistAddLock(th)
        \/ DistAddAppend(th)
        \/ DistAddTree(th)
        \/ RebStart(th)
        \/ RebCheck(th)
        \/ RebSlice(th)
        \/ RebSplit(th)
        \/ RebStore(th)

SpecDistConc == DistInit /\ [][NextDistConc]_vars

\* The blocks held by the shards of the index, shard after shard.
RECURSIVE SharedBlocks(_, _)
SharedBlocks(shards, i) ==
    IF i > Len(shards) THEN <<>>
    ELSE heap[shards[i].ref].Blocks \o SharedBlocks(shards, i + 1)

DistDone == \A th \in Threads : thr[th].at = "done"

\* C11: when every concurrent DistributeBlock call has returned, every
\* distributed block is held by exactly one shard of the index.
C11_ManagerExclusion ==
    DistDone => SeqToBag(SharedBlocks(GetAllShards(tree), 1)) = SeqToBag(distributed)

(***************************************************************************)
(* The orchestrator evaluated on a grid of latencies and error rates: the  *)
(* latencies of main (80, 150 and 300 ms), the thresholds of 100 and 250   *)
(* ms and the microsecond after each, and error rates from 0 in steps of   *)
(* 0.01 with the thousandth after each threshold.  last keeps the level    *)
(* the call found.                                                         *)
(***************************************************************************)
\* latencies from 0 in steps of 50 ms
MaxEvalSteps == 6
\* error rates from 0 in steps of 0.01
MaxEvalErr == 9

EvalLatencies ==
    {k * 50000 : k \in 0..MaxEvalSteps} \cup {80000, 100001, 250001}

EvalErrorRates == {k * 10 : k \in 0..MaxEvalErr} \cup {31, 81}

DoEvaluateNetwork ==
    /\ \E latency \in EvalLatencies, errorRate \in EvalErrorRates :
          co' = EvaluateNetwork(co, latency, errorRate)
    /\ last' = [op |-> "EvaluateNetwork", prev |-> co.CurrentLevel]
    /\ UNCHANGED <<tree, pending, distributed, halted, calls, pc, threadVars>>
    /\ UNCHANGED <<bc, sp, acc, trie, vc, cap, heap, stm, acm, vcThr, vcMu>>

SpecEval == Init /\ [][DoEvaluateNetwork]_vars

\* C21: after EvaluateNetwork(latency, errorRate) the level is Eventual if
\* the latency is over 250 ms or the error rate over 0.08, else Causal if
\* the latency is over 100 ms or the error rate over 0.03, else Strong,
\* whatever the level was before; a value exactly at a threshold does not
\* cross it.
C21_ConsistencyLevel ==
    last.op = "EvaluateNetwork" =>
        /\ co.CurrentLevel =
              IF co.LastLatency > 250000 \/ co.ErrorRate > 80 THEN "Eventual"
              ELSE IF co.LastLatency > 100000 \/ co.ErrorRate > 30 THEN "Causal"
              ELSE "Strong"
        /\ (co.LastLatency = 250000 /\ co.ErrorRate = 80) => co.CurrentLevel = "Causal"
        /\ (co.LastLatency = 100000 /\ co.ErrorRate = 30) => co.CurrentLevel = "Strong"

\* C21 witness: a call with both metrics exactly at the lower thresholds
\* found the level at Eventual and set it to Strong.
C21_Witness ==
    /\ last.op = "EvaluateNetwork"
    /\ last.prev = "Eventual"
    /\ co.LastLatency = 100000 /\ co.ErrorRate = 30
    /\ co.CurrentLevel = "Strong"

(***************************************************************************)
(* Transfers run by several threads with block indexes on both sides of    *)
(* the source's range: one below 0, the indexes of the two blocks a shard  *)
(* starts with, and the index one past them.                               *)
(***************************************************************************)
\* largest block index a thread hands to its transfer here
MaxBadIdx == 2

ThreadInitsIdx ==
    {[IdleThread EXCEPT !.at = "c_lock", !.mgr = m, !.src = s, !.dst = d, !.idx = i] :
        m \in Managers, s \in 1..ConcShards, d \in 1..ConcShards, i \in (0 - 1)..MaxBadIdx}

ConcInitIdx ==
    /\ tree = ConcTree
    /\ pending = [m \in Managers |-> EmptyMap]
    /\ distributed = ConcChain(2 * ConcShards)
    /\ last = NoCall("init")
    /\ halted = FALSE
    /\ calls = 0
    /\ pc = "threads"
    /\ thr \in [Threads -> ThreadInitsIdx]
    /\ locks = NoLocks
    /\ CompInit

SpecConcIdx == ConcInitIdx /\ [][NextConc]_vars

\* C22: a CreateAuthenticatedTransfer(S, D, i) with i < 0 or i >= |S.Blocks|
\* returns false at its index check; from the call to the return the
\* thread changes no shard (blocks and trees) and no pending table, and it
\* returns holding no shard lock.
C22_InvalidIndex ==
    [][\A th \in Threads :
          /\ (thr[th].at = "c_lock" /\ thr'[th] # thr[th])
             => /\ thr'[th].at = "c_check"
                /\ tree' = tree
                /\ pending' = pending
                /\ \A i \in 1..ConcShards : locks'.shard[i] # th
          /\ (thr[th].at = "c_check" /\ ~IndexInRange(th) /\ thr'[th] # thr[th])
             => /\ thr'[th].at = "done"
                /\ thr'[th].created = "false"
                /\ tree' = tree
                /\ pending' = pending
                /\ \A i \in 1..ConcShards : locks'.shard[i] # th
      ]_vars

\* C22 witness: a prepare with an index past the end of its source has
\* returned false while its manager's table holds another transfer.
C22_Witness ==
    \E th \in Threads :
        /\ thr[th].at = "done"
        /\ thr[th].created = "false"
        /\ thr[th].idx >= Len(Source(th).Blocks)
        /\ pending[thr[th].mgr] # EmptyMap

(***************************************************************************)
(* Properties of the shards' roots.                                        *)
(***************************************************************************)
\* The payloads of a shard's blocks, in order.
PayloadsOf(shard) == getDataStrings(shard.Blocks)

\* C23: a shard's GetRoot() is determined by its payload sequence alone:
\* two shards of the index with equal payload sequences report the same
\* root, and a shard with no blocks reports the root that the manager's
\* first shard reported before any block was added, whatever happened to it.
C23_RootDeterminism ==
    /\ \A i, j \in 1..Len(Shards) :
          PayloadsOf(Shards[i]) = PayloadsOf(Shards[j])
          => GetRoot(Shards[i]) = GetRoot(Shards[j])
    /\ \A i \in 1..Len(Shards) :
          PayloadsOf(Shards[i]) = <<>>
          => GetRoot(Shards[i]) = GetRoot(ShardAt(NewShardManager, 1))

(***************************************************************************)
(* The shard manager driven by DistributeBlock and MergeShards only.       *)
(***************************************************************************)
NextDistMerge ==
    \/ DoDistributeBlock(Payloads, MaxMgrBlocks) /\ UNCHANGED <<pc, threadVars, compVars>>
    \/ DoMergeShards /\ UNCHANGED <<pc, threadVars, compVars>>

SpecDistMerge == Init /\ [][NextDistMerge]_vars

IDsOf(shards) == [i \in 1..Len(shards) |-> shards[i].ID]

\* C24: when the rebalance at the end of a DistributeBlock has split a shard
\* (the index has more shards than before), every ID that is new in the
\* index is greater than every ID the index held before, and every shard
\* that was over the limit is still there under its ID with the first
\* floor(n/2) of its n blocks.
C24_SplitIDs ==
    [][LET before == GetAllShards(tree)
           after == GetAllShards(tree')
           newIDs == BagToSet(SeqToBag(IDsOf(after)) (-) SeqToBag(IDsOf(before)))
           blocksAt(i) == IF i = Len(before)
                          THEN Append(before[i].Blocks, distributed'[Len(distributed')])
                          ELSE before[i].Blocks
       IN Len(after) > Len(before) =>
             /\ \A id \in newIDs : \A i \in 1..Len(before) : id > before[i].ID
             /\ \A i \in 1..Len(before) :
                   Len(blocksAt(i)) > MaxBlocksPerShard =>
                      \E j \in 1..Len(after) :
                         /\ after[j].ID = before[i].ID
                         /\ after[j].Blocks = SubSeq(blocksAt(i), 1, Len(blocksAt(i)) \div 2)
      ]_vars

(***************************************************************************)
(* Properties of the pending-transfer tables.                              *)
(***************************************************************************)
\* The transfer ID of the call that returned last.
LastTransferID == TransferID(Shards[last.src], Shards[last.dst], last.idx)

\* C25: after a CreateAuthenticatedTransfer that returned true the manager's
\* table holds a prepared entry under the transfer's ID, and after a
\* VerifyAndApplyTransfer that found a prepared entry, whether it returned
\* true or false, the table holds no entry under that ID.
C25_PendingLifecycle ==
    /\ (last.op = "CreateAuthenticatedTransfer" /\ last.ret)
       => /\ LastTransferID \in DOMAIN pending[last.mgr]
          /\ pending[last.mgr][LastTransferID].Prepared
    /\ (last.op = "VerifyAndApplyTransfer" /\ last.found)
       => LastTransferID \notin DOMAIN pending[last.mgr]

\* The call that this step makes, if it is a call of VerifyAndApplyTransfer.
IsVerifyStep == calls' = calls + 1 /\ last'.op = "VerifyAndApplyTransfer"

\* The ID of the transfer that the step's call names.
StepTransferID == TransferID(Shards[last'.src], Shards[last'.dst], last'.idx)

C27_PrepareAlwaysPasses ==
    ( /\ last.op = "CreateAuthenticatedTransfer"
      /\ last.src # last.dst
      /\ 0 <= last.idx /\ last.idx < Len(Shards[last.src].Blocks) )
    => /\ last.ret
       /\ LastTransferID \in DOMAIN pending[last.mgr]
       /\ pending[last.mgr][LastTransferID].Prepared
       /\ pending[last.mgr][LastTransferID].SourceSnapshot = Shards[last.src].Blocks
       /\ pending[last.mgr][LastTransferID].DestSnapshot = Shards[last.dst].Blocks

\* C27 witness: the manager built with "wrong-key" has prepared a transfer
\* out of a shard that a committed transfer had changed before.
C27_Witness ==
    /\ last.op = "CreateAuthenticatedTransfer"
    /\ last.mgr = 2
    /\ last.ret
    /\ last.src # last.dst
    /\ Shards[last.src].Blocks # <<>>
    /\ AllBlocks(Shards, 1) # distributed

(***************************************************************************)
(* The shard manager with its merges on record: last keeps the threshold   *)
(* of the MergeShards call that returned last and the shards it found.     *)
(***************************************************************************)
DoMergeShardsCall ==
    /\ ~halted
    /\ \E threshold \in 1..MaxThreshold :
          /\ tree' = MergeShards(tree, threshold)
          /\ last' = [op |-> "MergeShards", threshold |-> threshold, before |-> Shards]
    /\ UNCHANGED <<pending, distributed, halted, calls>>

NextMerge ==
    \/ DoDistributeBlock(Payloads, MaxMgrBlocks) /\ UNCHANGED <<pc, threadVars, compVars>>
    \/ DoRebalanceShards(MaxMgrBlocks) /\ UNCHANGED <<pc, threadVars, compVars>>
    \/ DoMergeShardsCall /\ UNCHANGED <<pc, threadVars, compVars>>

SpecMerge == Init /\ [][NextMerge]_vars

\* What one left-to-right pass makes of the shards from place i on: a shard
\* with fewer than threshold blocks and a successor becomes, under its own
\* ID, its blocks followed by the successor's, with the root of that
\* sequence, and the pass goes on after the successor; any other shard stays.
RECURSIVE MergedFrom(_, _, _)
MergedFrom(shards, i, threshold) ==
    IF i > Len(shards) THEN <<>>
    ELSE IF Len(shards[i].Blocks) < threshold /\ i + 1 <= Len(shards)
    THEN <<[ID |-> shards[i].ID,
            Blocks |-> shards[i].Blocks \o shards[i + 1].Blocks,
            Root |-> RootOf(shards[i].Blocks \o shards[i + 1].Blocks)]>>
         \o MergedFrom(shards, i + 2, threshold)
    ELSE <<[ID |-> shards[i].ID, Blocks |-> shards[i].Blocks, Root |-> GetRoot(shards[i])]>>
         \o MergedFrom(shards, i + 1, threshold)

\* C28: after MergeShards(t) the shards, in enumeration order, are those of
\* one left-to-right pass in which shard i absorbs shard i+1 exactly when i
\* was not absorbed itself, holds fewer than t blocks and i+1 exists: the
\* merged shard has i's ID, i's blocks followed by i+1's and the root of
\* that sequence; and the concatenation of all blocks is what it was.
C28_MergeRule ==
    last.op = "MergeShards" =>
        /\ [j \in 1..Len(Shards) |->
               [ID |-> Shards[j].ID, Blocks |-> Shards[j].Blocks, Root |-> GetRoot(Shards[j])]]
           = MergedFrom(last.before, 1, last.threshold)
        /\ AllBlocks(Shards, 1) = AllBlocks(last.before, 1)

\* C28 witness: a merge found three shards, merged the first two, and kept
\* the third although it holds fewer blocks than the threshold.
C28_Witness ==
    /\ last.op = "MergeShards"
    /\ Len(last.before) = 3
    /\ Len(Shards) = 2
    /\ Len(Shards[1].Blocks) > Len(last.before[1].Blocks)
    /\ Len(Shards[2].Blocks) < last.threshold

(***************************************************************************)
(* DistributeBlock and MergeShards on a longer chain.                      *)
(***************************************************************************)
\* blocks distributed in the specification of the blocks' order
MaxOrderBlocks == 9

NextOrder ==
    \/ DoDistributeBlock(Payloads, MaxOrderBlocks) /\ UNCHANGED <<pc, threadVars, compVars>>
    \/ DoMergeShards /\ UNCHANGED <<pc, threadVars, compVars>>

SpecOrder == Init /\ [][NextOrder]_vars

\* C29: after any sequence of DistributeBlock and MergeShards calls the
\* shards' block sequences, concatenated in GetAllShards order, are the
\* blocks in the order in which they were distributed.
C29_OrderPreserved == AllBlocks(Shards, 1) = distributed

(***************************************************************************)
(* A state manager with a window of 0 or more blocks, given blocks of a    *)
(* chain in any order, a block more than once included.  last keeps the    *)
(* block of the AddBlock call that returned last, the manager's two lists  *)
(* before the call, and all the blocks added so far.                       *)
(***************************************************************************)
\* largest MaxActiveCount
MaxWindow == 2
\* blocks of the chain that are handed to AddBlock
MaxStateBlocks == 3
\* calls of AddBlock
MaxStateAdds == 3

StateBlocks == {ConcChain(MaxStateBlocks)[i] : i \in 1..MaxStateBlocks}

StateInit ==
    /\ tree = NewShardManager
    /\ pending = [m \in Managers |-> EmptyMap]
    /\ distributed = <<>>
    /\ last = [op |-> "init", block |-> GenesisBlock, prePruned |-> <<>>,
               preActive |-> <<>>, added |-> <<>>]
    /\ halted = FALSE
    /\ calls = 0
    /\ pc = "distribute"
    /\ thr = [th \in Threads |-> IdleThread]
    /\ locks = NoLocks
    /\ bc = NewBlockchain
    /\ sp = NewStatePruner(MainMaxHeight, MainRetention, TRUE)
    /\ acc = NewRSAAccumulator
    /\ trie = NewSuccinctTrie
    /\ vc = [c \in {"a", "b", "c"} |-> NewVectorClock]
    /\ cap = [latency |-> 0, errorRate |-> 0, capacity |-> 0]
    /\ heap = <<>>
    /\ co = NewOrchestrator
    /\ stm \in {NewStateManager(maxActive) : maxActive \in 0..MaxWindow}
    /\ acm = NewAdaptiveCapacityManager
    /\ vcThr = [th \in VcThreads |-> IdleCall]
    /\ vcMu = NoClockLocks

DoStateAddBlock ==
    /\ Len(last.added) < MaxStateAdds
    /\ \E block \in StateBlocks :
          /\ stm' \in StateManager_AddBlock(stm, block)
          /\ last' = [op |-> "AddBlock", block |-> block,
                      prePruned |-> stm.PrunedBlocks, preActive |-> stm.ActiveBlocks,
                      added |-> Append(last.added, block)]
    /\ UNCHANGED <<tree, pending, distributed, halted, calls, pc, threadVars>>
    /\ UNCHANGED <<bc, sp, acc, trie, vc, cap, heap, co, acm, vcThr, vcMu>>

SpecState == StateInit /\ [][DoStateAddBlock]_vars

ArchivedBlocks(blocks) == [i \in 1..Len(blocks) |-> ArchivedBlock(blocks[i])]

\* C30: after every StateManager.AddBlock, with MaxActiveCount >= 0, there
\* are at most MaxActiveCount active blocks; the call has archived no block
\* or one, and then the one that was the oldest active block once the new
\* block was appended; and PrunedBlocks followed by ActiveBlocks lists the
\* blocks added so far in the order in which they were added.
C30_StateWindow ==
    last.op = "AddBlock" =>
        /\ Len(stm.ActiveBlocks) <= stm.MaxActiveCount
        /\ \/ /\ stm.PrunedBlocks = last.prePruned
              /\ stm.ActiveBlocks = Append(last.preActive, last.block)
           \/ /\ stm.PrunedBlocks =
                    Append(last.prePruned,
                           ArchivedBlock(Append(last.preActive, last.block)[1]))
              /\ stm.ActiveBlocks = Tail(Append(last.preActive, last.block))
        /\ stm.PrunedBlocks \o ArchivedBlocks(stm.ActiveBlocks) = ArchivedBlocks(last.added)

\* C30 witness: a manager with a window of two blocks was given a third
\* block, archived the first and holds the other two.
C30_Witness ==
    /\ last.op = "AddBlock"
    /\ stm.MaxActiveCount = 2
    /\ Len(last.preActive) = 2
    /\ Len(stm.PrunedBlocks) = 1
    /\ stm.PrunedBlocks[1].Hash = last.added[1].Hash
    /\ stm.ActiveBlocks = <<last.added[2], last.added[3]>>
    /\ last.added[1] # last.added[3]

\* C31: after any sequence of StateManager.AddBlock calls with non-empty
\* payloads, ActiveTrie.Get(h) returns the payload and true for the hash h
\* of every block added so far, evicted or not, and ArchiveTrie.Get(h)
\* returns the payload and true for the hashes of the blocks in
\* PrunedBlocks and fails for every other hash.
C31_DualTrieMembership ==
    last.op = "AddBlock" =>
        /\ \A i \in 1..Len(last.added) :
              Trie_Get(stm.ActiveTrie, last.added[i].Hash) = <<last.added[i].Data, TRUE>>
        /\ \A i \in 1..Len(stm.PrunedBlocks) :
              Trie_Get(stm.ArchiveTrie, stm.PrunedBlocks[i].Hash)
              = <<stm.PrunedBlocks[i].Data, TRUE>>
        /\ \A b \in StateBlocks :
              (\A i \in 1..Len(stm.PrunedBlocks) : stm.PrunedBlocks[i].Hash # b.Hash)
              => Trie_Get(stm.ArchiveTrie, b.Hash) = <<EmptyStr, FALSE>>

\* C31 witness: one block was evicted and two are active; the active trie
\* finds all three, the archive trie the evicted one only.
C31_Witness ==
    /\ last.op = "AddBlock"
    /\ Len(stm.PrunedBlocks) = 1
    /\ Len(stm.ActiveBlocks) = 2
    /\ Cardinality({last.added[i].Hash : i \in 1..3}) = 3
    /\ Trie_Get(stm.ActiveTrie, stm.PrunedBlocks[1].Hash)[2]
    /\ Trie_Get(stm.ArchiveTrie, stm.PrunedBlocks[1].Hash)[2]
    /\ ~Trie_Get(stm.ArchiveTrie, stm.ActiveBlocks[1].Hash)[2]

\* C32: the trie root is a function of the inserts: an UpdateArchiveRoot
\* on an archive trie that holds a block and has not changed since its
\* last insert leaves its root as it was, and the same AddBlock on the same
\* manager gives the same active root whichever order the children of a
\* node are visited in.
C32_TrieRootDeterminism ==
    /\ stm.PrunedBlocks # <<>> =>
          \A sm \in UpdateArchiveRoot(stm) : GetArchiveRoot(sm) = GetArchiveRoot(stm)
    /\ \A b \in StateBlocks :
          \A s1, s2 \in StateManager_AddBlock(stm, b) : GetActiveRoot(s1) = GetActiveRoot(s2)

(***************************************************************************)
(* The Merkle tree as a function: NewMerkleTree applied to every list of   *)
(* up to MaxLeaves data items.  last holds the list and the tree built.    *)
(***************************************************************************)
\* longest list of data items
MaxLeaves == 6

RECURSIVE DataLists(_)
DataLists(n) ==
    IF n = 0 THEN {<<>>}
    ELSE DataLists(n - 1)
         \cup {Append(d, p) : d \in {x \in DataLists(n - 1) : Len(x) = n - 1}, p \in Payloads}

MerkleInit ==
    /\ tree = NewShardManager
    /\ pending = [m \in Managers |-> EmptyMap]
    /\ distributed = <<>>
    /\ last \in {[op |-> "init", data |-> d, mt |-> NewMerkleTree(<<>>)] : d \in DataLists(MaxLeaves)}
    /\ halted = FALSE
    /\ calls = 0
    /\ pc = "distribute"
    /\ thr = [th \in Threads |-> IdleThread]
    /\ locks = NoLocks
    /\ CompInit

DoNewMerkleTree ==
    /\ last.op = "init"
    /\ last' = [last EXCEPT !.op = "NewMerkleTree", !.mt = NewMerkleTree(last.data)]
    /\ UNCHANGED <<tree, pending, distributed, halted, calls, pc, threadVars, compVars>>

SpecMerkle == MerkleInit /\ [][DoNewMerkleTree]_vars

\* One level up with the last node of an odd level carried as it is.
RECURSIVE carriedParents(_, _)
carriedParents(level, i) ==
    IF i > Len(level) THEN <<>>
    ELSE IF i + 1 <= Len(level)
         THEN <<sha256(level[i] \o level[i + 1])>> \o carriedParents(level, i + 2)
         ELSE <<level[i]>>

RECURSIVE carriedRoot(_)
carriedRoot(level) ==
    IF Len(level) = 0 THEN sha256(EmptyStr)
    ELSE IF Len(level) = 1 THEN level[1]
    ELSE carriedRoot(carriedParents(level, 1))

\* C33: the root of a Merkle tree is the root of the pairwise hashing in
\* which the last node of a level of odd length goes up unchanged: three
\* leaves give H(H(h0 || h1) || h2), one leaf gives its own digest, and no
\* input gives H("").
C33_OddLevelCarried ==
    last.op = "NewMerkleTree" =>
        last.mt.Root = carriedRoot([i \in 1..Len(last.data) |-> sha256(last.data[i])])

(***************************************************************************)
(* CombineCommitments as a function: three commitments a, b and c are      *)
(* combined as [[a, b], c] (nested) and as [a, b, c] (flat).               *)
(***************************************************************************)
CommitmentKey == Str("secret-commitment-key")

CommitValues == {Str("v"), Str("w"), Str("x")}

\* commitments made by AuthenticateData, for the value they carry or another
CommitInputs ==
    {[Value |-> v, Commitment |-> AuthenticateData(CommitmentKey, w)] :
        v \in CommitValues, w \in CommitValues}

NoCommitment == [Value |-> EmptyStr, Commitment |-> EmptyStr]

CombineInit ==
    /\ tree = NewShardManager
    /\ pending = [m \in Managers |-> EmptyMap]
    /\ distributed = <<>>
    /\ last \in {[op |-> "init", a |-> a, b |-> b, c |-> c,
                  nested |-> NoCommitment, flat |-> NoCommitment] :
                    a \in CommitInputs, b \in CommitInputs, c \in CommitInputs}
    /\ halted = FALSE
    /\ calls = 0
    /\ pc = "distribute"
    /\ thr = [th \in Threads |-> IdleThread]
    /\ locks = NoLocks
    /\ CompInit

DoCombineCommitments ==
    /\ last.op = "init"
    /\ last' = [last EXCEPT
                  !.op = "CombineCommitments",
                  !.nested = CombineCommitments(CommitmentKey,
                                 <<CombineCommitments(CommitmentKey, <<last.a, last.b>>), last.c>>),
                  !.flat = CombineCommitments(CommitmentKey, <<last.a, last.b, last.c>>)]
    /\ UNCHANGED <<tree, pending, distributed, halted, calls, pc, threadVars, compVars>>

SpecCombine == CombineInit /\ [][DoCombineCommitments]_vars

\* C34: CombineCommitments is associative: combining [a, b] first and the
\* result with c gives the same Value and the same Commitment as
\* combining [a, b, c] at once.
C34_CombineAssociative ==
    last.op = "CombineCommitments" =>
        /\ last.nested.Value = last.flat.Value
        /\ last.nested.Commitment = last.flat.Commitment

(***************************************************************************)
(* The adaptive capacity manager: any sequence of RecordMetrics and        *)
(* SyncWithPeer calls, on a new manager and on managers that have already  *)
(* recorded one metric less than the history limit, or as many.  In last,  *)
(* pre is the manager before the call that returned last, now the wall     *)
(* clock, and metrics, peerMetrics and peerVC the arguments of the call.   *)
(***************************************************************************)
\* calls of RecordMetrics and SyncWithPeer in one run
MaxAcmCalls == 2
\* last tick of the wall clock and of the timestamps of metrics
MaxStamp == 3

AcmLatencies == {0, 200000}

\* The clocks a caller hands in: nil, and clocks behind and ahead of the
\* manager's own.
PeerClocks ==
    {<<>>}
    \cup {<<[clock |-> f]>> :
             f \in {EmptyMap,
                    MapPut(EmptyMap, "node1", 1),
                    MapPut(MapPut(EmptyMap, "node1", 2), "node2", 1),
                    MapPut(EmptyMap, "node2", 3)}}

Metrics(latency, nodeID, timestamp, clock) ==
    [Latency |-> latency, Throughput |-> Fx(100), ErrorRate |-> 0,
     NodeID |-> nodeID, Timestamp |-> timestamp, VectorClock |-> clock]

RecordInputs ==
    {Metrics(l, n, t, c) : l \in AcmLatencies, n \in NodeIDs, t \in 1..MaxStamp, c \in PeerClocks}

\* The metrics a peer reports carry no clock and sit under the key of the
\* node they name.
PeerInputs ==
    {Metrics(l, n, t, <<>>) : l \in AcmLatencies, n \in NodeIDs, t \in 1..MaxStamp}

PeerMetricsMaps ==
    UNION {{f \in [S -> PeerInputs] : \A n \in S : f[n].NodeID = n} : S \in SUBSET NodeIDs}

\* The manager after k calls of RecordMetrics(FirstMetrics) at tick 1:
\* recorded(k + 1) is RecordMetrics(recorded(k), FirstMetrics, 1).
FirstMetrics == Metrics(0, "node1", 1, <<>>)

recorded(k) ==
    IF k = 0 THEN NewAdaptiveCapacityManager
    ELSE [NewAdaptiveCapacityManager EXCEPT
            !.vectorClock = [clock |-> MapPut(EmptyMap, "node1", k)],
            !.metricHistory =
                MapPut(EmptyMap, "node1",
                       [i \in 1..(IF k > HistoryLimit THEN HistoryLimit ELSE k) |-> FirstMetrics]),
            !.nodeCapacities =
                MapPut(EmptyMap, "node1", AdjustCapacity(NewDefaultAdaptivePolicy, FirstMetrics)),
            !.nodeLastUpdate = MapPut(EmptyMap, "node1", 1)]

AcmInit ==
    /\ tree = NewShardManager
    /\ pending = [m \in Managers |-> EmptyMap]
    /\ distributed = <<>>
    /\ halted = FALSE
    /\ calls = 0
    /\ pc = "distribute"
    /\ thr = [th \in Threads |-> IdleThread]
    /\ locks = NoLocks
    /\ bc = NewBlockchain
    /\ sp = NewStatePruner(MainMaxHeight, MainRetention, TRUE)
    /\ acc = NewRSAAccumulator
    /\ trie = NewSuccinctTrie
    /\ vc = [c \in {"a", "b", "c"} |-> NewVectorClock]
    /\ cap = [latency |-> 0, errorRate |-> 0, capacity |-> 0]
    /\ heap = <<>>
    /\ co = NewOrchestrator
    /\ stm = NewStateManager(MainMaxActive)
    /\ acm \in {recorded(k) : k \in {0, HistoryLimit - 1, HistoryLimit}}
    /\ vcThr = [th \in VcThreads |-> IdleCall]
    /\ vcMu = NoClockLocks
    /\ last = [op |-> "init", pre |-> acm, now |-> 1,
               metrics |-> FirstMetrics,
               peerMetrics |-> EmptyMap, peerVC |-> <<>>]

AcmFrame ==
    /\ UNCHANGED <<tree, pending, distributed, halted, pc, threadVars>>
    /\ UNCHANGED <<bc, sp, acc, trie, vc, cap, heap, co, stm, vcThr, vcMu>>

DoRecordMetrics ==
    /\ calls < MaxAcmCalls
    /\ \E metrics \in RecordInputs, now \in last.now..MaxStamp :
          /\ acm' = RecordMetrics(acm, metrics, now)
          /\ last' = [last EXCEPT !.op = "RecordMetrics", !.pre = acm, !.now = now,
                                  !.metrics = metrics]
    /\ calls' = calls + 1
    /\ AcmFrame

DoSyncWithPeer ==
    /\ calls < MaxAcmCalls
    /\ \E peerMetrics \in PeerMetricsMaps, peerVC \in PeerClocks :
          /\ acm' = SyncWithPeer(acm, peerMetrics, peerVC)
          /\ last' = [last EXCEPT !.op = "SyncWithPeer", !.pre = acm,
                                  !.peerMetrics = peerMetrics, !.peerVC = peerVC]
    /\ calls' = calls + 1
    /\ AcmFrame

NextAcm == DoRecordMetrics \/ DoSyncWithPeer

SpecAcm == AcmInit /\ [][NextAcm]_vars

\* C35: no RecordMetrics or SyncWithPeer call lowers a component of the
\* manager's vector clock; RecordMetrics(m) raises the component of
\* m.NodeID by at least one, and by exactly one, with every other component
\* unchanged, when m carries no clock; SyncWithPeer leaves every component
\* at the larger of its old value and the peer's, so it only merges.
C35_ClockMonotone ==
    last.op # "init" =>
        LET pre == last.pre.vectorClock
            post == acm.vectorClock
        IN /\ \A n \in NodeIDs : VC_Get(post, n) >= VC_Get(pre, n)
           /\ last.op = "RecordMetrics" =>
                 /\ VC_Get(post, last.metrics.NodeID) >= VC_Get(pre, last.metrics.NodeID) + 1
                 /\ last.metrics.VectorClock = <<>> =>
                       post = VC_Update(pre, last.metrics.NodeID)
           /\ last.op = "SyncWithPeer" =>
                 /\ last.peerVC = <<>> => post = pre
                 /\ last.peerVC # <<>> =>
                       \A n \in NodeIDs :
                           VC_Get(post, n) = Max(VC_Get(pre, n), VC_Get(last.peerVC[1], n))

\* C35 witness: a second call, a RecordMetrics whose metrics carry a clock
\* ahead of the manager's for the reporting node, after which that
\* component is more than one above its old value.
C35_Witness ==
    /\ last.op = "RecordMetrics"
    /\ calls = 2
    /\ last.metrics.VectorClock # <<>>
    /\ \E n \in NodeIDs : VC_Get(last.pre.vectorClock, n) > 0
    /\ VC_Get(acm.vectorClock, last.metrics.NodeID)
       > VC_Get(last.pre.vectorClock, last.metrics.NodeID) + 1

\* What the manager holds for node n: its history, capacity and last update,
\* each as a list that is empty when the map has no entry.
NodeView(m, n) ==
    [history |-> IF n \in DOMAIN m.metricHistory THEN m.metricHistory[n] ELSE <<>>,
     capacity |-> IF n \in DOMAIN m.nodeCapacities THEN <<m.nodeCapacities[n]>> ELSE <<>>,
     lastUpdate |-> IF n \in DOMAIN m.nodeLastUpdate THEN <<m.nodeLastUpdate[n]>> ELSE <<>>]

\* C36: SyncWithPeer adopts the peer's metric for node n iff the manager
\* has no last update for n or the metric's timestamp is strictly later
\* than it.  Adopting appends the metric to n's history, sets n's capacity
\* to the policy's value for that metric and n's last update to the
\* metric's timestamp; every other node is left as it was; and no history
\* ever holds more than 100 entries.
C36_SyncAdoption ==
    /\ \A n \in DOMAIN acm.metricHistory : Len(acm.metricHistory[n]) <= HistoryLimit
    /\ last.op = "SyncWithPeer" =>
          \A n \in NodeIDs :
              LET pre == NodeView(last.pre, n)
                  post == NodeView(acm, n)
                  adopt == /\ n \in DOMAIN last.peerMetrics
                           /\ \/ pre.lastUpdate = <<>>
                              \/ last.peerMetrics[n].Timestamp > pre.lastUpdate[1]
              IN IF adopt
                 THEN LET metrics == last.peerMetrics[n]
                          history == Append(pre.history, metrics)
                      IN /\ post.history = IF Len(history) > HistoryLimit
                                           THEN Tail(history) ELSE history
                         /\ post.capacity = <<AdjustCapacity(NewDefaultAdaptivePolicy, metrics)>>
                         /\ post.lastUpdate = <<metrics.Timestamp>>
                 ELSE post = pre

\* C36 witness: one SyncWithPeer offers metrics for both nodes; node1's is
\* later than its last update and is adopted into a history that was full,
\* node2's is as old as its last update and changes nothing.
C36_Witness ==
    /\ last.op = "SyncWithPeer"
    /\ DOMAIN last.peerMetrics = NodeIDs
    /\ Len(NodeView(last.pre, "node1").history) = HistoryLimit
    /\ last.peerMetrics["node1"].Timestamp > last.pre.nodeLastUpdate["node1"]
    /\ acm.nodeLastUpdate["node1"] = last.peerMetrics["node1"].Timestamp
    /\ acm.nodeCapacities["node1"] # last.pre.nodeCapacities["node1"]
    /\ "node2" \in DOMAIN last.pre.nodeLastUpdate
    /\ last.peerMetrics["node2"].Timestamp = last.pre.nodeLastUpdate["node2"]
    /\ last.peerMetrics["node2"].Latency # last.pre.metricHistory["node2"][1].Latency
    /\ NodeView(acm, "node2") = NodeView(last.pre, "node2")

\* The places of a thread inside CreateAuthenticatedTransfer.
CreateSteps ==
    {"c_lock", "c_check", "c_commit", "c_store", "p_verify", "p_lock_source", "p_lock_dest",
     "p_mark"}

\* C37: no step of a CreateAuthenticatedTransfer call changes a shard's
\* blocks or Merkle tree, and when the call returns, true or false, the
\* caller holds neither the source shard's lock nor the destination's, so
\* that a Shard.AddBlock after it can take the lock.
C37_PrepareChangesNoShard ==
    [][\A th \in Threads :
          (thr[th].at \in CreateSteps /\ thr'[th] # thr[th]) =>
              /\ tree' = tree
              /\ thr'[th].created # "none" =>
                    \A i \in 1..ConcShards : locks'.shard[i] # th]_vars

\* C37 witness: one call has returned true and one false, the shards are
\* as they were before the calls, and no shard lock is held.
C37_Witness ==
    /\ \E th \in Threads : thr[th].created = "true" /\ thr[th].at = "v_lock"
    /\ \E th \in Threads : thr[th].created = "false"
    /\ tree = ConcTree
    /\ \A i \in 1..ConcShards : locks.shard[i] = 0

\* C38: under a policy with MaxHeight >= 1, a PruneBlockchain that follows
\* a PruneBlockchain with no AddBlock between them returns 0, leaves the
\* chain as it is and appends no integrity proof.
C38_PruneIdempotent ==
    [][(Pruned /\ sp.policy.MaxHeight >= 1 /\ last'.op = "PruneBlockchain") =>
          /\ ~last'.panic
          /\ last'.ret = 0
          /\ bc' = bc
          /\ sp' = sp]_vars

\* C38 witness: no block was added in the run, one prune has dropped
\* blocks and left a proof, and the prune after it returned 0.
C38_Witness ==
    /\ calls = 0
    /\ Pruned /\ last.ret = 0
    /\ sp.policy.MaxHeight >= 1
    /\ Len(sp.integrityProofs) = 1
    /\ bc.Blocks = last.preBlocks
    /\ Len(bc.Blocks) > sp.policy.RetentionCount

(***************************************************************************)
(* The vector clocks a, b and c called by concurrent goroutines, one       *)
(* statement at a time: Update (u_), Get (g_), Clone (c_) and Merge (m_)   *)
(* with receiver x, argument y and node nodeID.  A body runs under its     *)
(* locks and ends with the deferred unlocks.                               *)
(***************************************************************************)
\* calls of the clocks' methods in one run
MaxVcCalls == 4

VcCalls ==
    {[IdleCall EXCEPT !.at = "u_lock", !.op = "Update", !.x = x, !.nodeID = n] :
        x \in ClockNames, n \in NodeIDs}
    \cup {[IdleCall EXCEPT !.at = "g_rlock", !.op = "Get", !.x = x, !.nodeID = n] :
             x \in ClockNames, n \in NodeIDs}
    \cup {[IdleCall EXCEPT !.at = "c_rlock", !.op = "Clone", !.x = x] : x \in ClockNames}
    \cup {[IdleCall EXCEPT !.at = "m_lock", !.op = "Merge", !.x = x, !.y = y] :
             x \in ClockNames, y \in ClockNames}

VcConcInit ==
    /\ LedgerInit
    /\ pc = "distribute"
    /\ thr = [th \in Threads |-> IdleThread]
    /\ locks = NoLocks
    /\ CompInit

VcFrame ==
    /\ UNCHANGED <<tree, pending, distributed, last, halted, pc, threadVars>>
    /\ UNCHANGED <<bc, sp, acc, trie, cap, heap, co, stm, acm>>

\* A goroutine makes its next call.
VcStartCall(th) ==
    /\ vcThr[th].at = "idle"
    /\ calls < MaxVcCalls
    /\ \E call \in VcCalls : vcThr' = [vcThr EXCEPT ![th] = call]
    /\ calls' = calls + 1
    /\ UNCHANGED <<vc, vcMu>> /\ VcFrame

\* vc.mu.Lock() of Update (line 23) and of Merge (line 30)
VcLock(th) ==
    /\ vcThr[th].at \in {"u_lock", "m_lock"}
    /\ vcMu[vcThr[th].x].w = 0 /\ vcMu[vcThr[th].x].r = {}
    /\ vcMu' = [vcMu EXCEPT ![vcThr[th].x].w = th]
    /\ vcThr' = [vcThr EXCEPT ![th].at = IF vcThr[th].at = "u_lock" THEN "u_body" ELSE "m_rlock"]
    /\ UNCHANGED <<vc, calls>> /\ VcFrame

\* other.mu.RLock() of Merge (line 33)
VcMergeRLock(th) ==
    /\ vcThr[th].at = "m_rlock"
    /\ vcMu[vcThr[th].y].w = 0
    /\ vcMu' = [vcMu EXCEPT ![vcThr[th].y].r = @ \cup {th}]
    /\ vcThr' = [vcThr EXCEPT ![th].at = "m_body"]
    /\ UNCHANGED <<vc, calls>> /\ VcFrame

\* vc.mu.RLock() of Clone (line 45) and of Get (line 57)
VcRLock(th) ==
    /\ vcThr[th].at \in {"c_rlock", "g_rlock"}
    /\ vcMu[vcThr[th].x].w = 0
    /\ vcMu' = [vcMu EXCEPT ![vcThr[th].x].r = @ \cup {th}]
    /\ vcThr' = [vcThr EXCEPT ![th].at = IF vcThr[th].at = "c_rlock" THEN "c_body" ELSE "g_body"]
    /\ UNCHANGED <<vc, calls>> /\ VcFrame

\* Update, line 25, and its return
VcUpdateBody(th) ==
    /\ vcThr[th].at = "u_body"
    /\ vc' = [vc EXCEPT ![vcThr[th].x] = VC_Update(@, vcThr[th].nodeID)]
    /\ vcMu' = [vcMu EXCEPT ![vcThr[th].x].w = 0]
    /\ vcThr' = [vcThr EXCEPT ![th].at = "idle"]
    /\ UNCHANGED calls /\ VcFrame

\* Merge, lines 36-40, and its return
VcMergeBody(th) ==
    /\ vcThr[th].at = "m_body"
    /\ vc' = [vc EXCEPT ![vcThr[th].x] = VC_Merge(@, vc[vcThr[th].y])]
    /\ vcMu' = [vcMu EXCEPT ![vcThr[th].y].r = @ \ {th}, ![vcThr[th].x].w = 0]
    /\ vcThr' = [vcThr EXCEPT ![th].at = "idle"]
    /\ UNCHANGED calls /\ VcFrame

\* Clone, lines 48-52, and its return
VcCloneBody(th) ==
    /\ vcThr[th].at = "c_body"
    /\ vcMu' = [vcMu EXCEPT ![vcThr[th].x].r = @ \ {th}]
    /\ vcThr' = [vcThr EXCEPT ![th].at = "idle", ![th].ret = <<VC_Clone(vc[vcThr[th].x])>>]
    /\ UNCHANGED <<vc, calls>> /\ VcFrame

\* Get, line 59, and its return
VcGetBody(th) ==
    /\ vcThr[th].at = "g_body"
    /\ vcMu' = [vcMu EXCEPT ![vcThr[th].x].r = @ \ {th}]
    /\ vcThr' = [vcThr EXCEPT ![th].at = "idle",
                              ![th].ret = <<VC_Get(vc[vcThr[th].x], vcThr[th].nodeID)>>]
    /\ UNCHANGED <<vc, calls>> /\ VcFrame

NextVcConc ==
    \E th \in VcThreads :
        \/ VcStartCall(th)
        \/ VcLock(th)
        \/ VcMergeRLock(th)
        \/ VcRLock(th)
        \/ VcUpdateBody(th)
        \/ VcMergeBody(th)
        \/ VcCloneBody(th)
        \/ VcGetBody(th)

SpecVcConc == VcConcInit /\ [][NextVcConc]_vars

\* The goroutine that holds the lock th waits for in Merge, 0 if th does
\* not wait.
VcWaitsFor(th) ==
    IF vcThr[th].at = "m_rlock" THEN vcMu[vcThr[th].y].w ELSE 0

VcDeadlockedSet(D) == D # {} /\ \A th \in D : VcWaitsFor(th) \in D

\* C39: under any interleaving of Update, Get, Clone and Merge calls,
\* a.Merge(b) beside b.Merge(a) and a.Merge(a) included, every call
\* returns: there is never a set of calls each of which waits for a lock
\* that a call of the set holds.
C39_CallsComplete == ~\E D \in SUBSET VcThreads : VcDeadlockedSet(D)

====
